---- MODULE Spec2Model ----
(***************************************************************************)
(* A model of the DeepSentry agent core: the command-risk classifier with  *)
(* its session approval cache (package security), the agent step with its  *)
(* history compression and response interpretation (package analyzer) and  *)
(* the agent loop that gates execution on the classifier's verdict, and    *)
(* the execution backends (package executor): their initialization, the    *)
(* local one with its file transfer and the remote session over one        *)
(* interactive shell.                                                      *)
(*                                                                         *)
(* Text is modelled as a sequence of one-character strings, so that the    *)
(* string operations of the source (TrimSpace, ReplaceAll, Split, Fields,  *)
(* ...) are computed character by character as the Go library does.        *)
(***************************************************************************)
EXTENDS Naturals, Integers, Sequences, FiniteSets, TLC

VARIABLES
  cmd,            \* SpecClassify: the command text handed to the classifier
  approvedCache,  \* security.approvedCache: the set of approved fingerprints
  verdict,        \* SpecClassify: the (riskLevel, reason) the call returned
  step,           \* SpecClassify: which call has been made
  cacheMutex,     \* security.cacheMutex: the writer and the readers holding it
  pc,             \* SpecSession: each goroutine's position in its call
  arg,            \* SpecSession: the cmd argument of each goroutine's call
  approved,       \* SpecSession: isApproved's result inside CheckRisk
  ret,            \* SpecSession: what each goroutine's last CheckRisk returned
  started,        \* SpecSession (history): trimmed arguments of the RecordApproval calls made
  completed,      \* SpecSession (history): trimmed arguments of the calls that returned
  wasApproved,    \* SpecSession (history): when the CheckRisk call began, an
                  \* approval of the same trimmed text had returned
  neverApproved,  \* SpecSession (history): when the CheckRisk call returned, no
                  \* approval of the same trimmed text had been called
  ncalls,         \* SpecSession: the number of calls made so far
  llmReply,       \* agent step: the raw text of the model's reply to the main call
  history,        \* agent step: *history, the conversation's messages
  startHistory,   \* agent step (history): *history when the last RunAgentStep call began
  llmCalls,       \* agent step (history): the callLLM calls of the last RunAgentStep call
  resp,           \* agent step: the AgentResponse the last call returned
  stepErr,        \* agent step: whether the last call returned an error
  phase,          \* agent loop: the loop's state
  confirmed,      \* agent loop: the operator confirmed the command of this iteration
  gateHigh,       \* agent loop (history): CheckRisk's verdict for the command was
                  \* high when the gate was reached
  lastExec,       \* agent loop (history): the last command handed to the backend
  nappended,      \* agent loop: the number of messages appended so far
  sumFailed,      \* agent loop (history): some summarization call has failed
  mu,             \* SSHExecutor.mu: whether the session lock is held
  stdin,          \* SSHExecutor.stdin: the lines written and not yet taken by the remote shell
  stdout,         \* SSHExecutor.stdout: the lines that arrived and were not read yet
  runPc,          \* SpecSSH: each caller's position in its Run call
  cmdStr,         \* SpecSSH: the argument of each caller's Run call
  endMarker,      \* SpecSSH: the endMarker of each caller's call (None before line 304)
  outputLines,    \* SpecSSH: the outputLines of each caller's call
  readLog,        \* SpecSSH (history): the lines each caller's call has read
  runRet,         \* SpecSSH: what the last Run call that returned gave its caller
  markers,        \* SpecSSH (history): the markers made on the session, in order
  nruns,          \* SpecSSH: the number of Run calls made so far
  files,          \* SpecLocal: the local files, path to bytes
  filesBefore,    \* SpecLocal (history): the files when the Run call began
  localCmd,       \* SpecLocal: the argument of the Run call
  localRet,       \* SpecLocal: what the Run call returned
  localStep,      \* SpecLocal: whether the call has been made
  processes,      \* SpecLocal (history): the command lines handed to a shell process
  Current,        \* executor.Current: the active executor
  currentBefore,  \* SpecInit (history): Current when Init was called
  initCfg,        \* SpecInit: the configuration handed to Init
  opened,         \* SpecInit: the transport resources that are open
  initPc,         \* SpecInit: the position of the Init call
  initErr         \* SpecInit: the error Init returned ("" for nil)

classifyVars == <<cmd, verdict, step>>
sessionVars == <<cacheMutex, pc, arg, approved, ret, started, completed,
                 wasApproved, neverApproved, ncalls>>
agentVars == <<llmReply, history, startHistory, llmCalls, resp, stepErr, phase,
               confirmed, gateHigh, lastExec, nappended, sumFailed>>
sshVars == <<mu, stdin, stdout, runPc, cmdStr, endMarker, outputLines, readLog,
             runRet, markers, nruns>>
localVars == <<files, filesBefore, localCmd, localRet, localStep, processes>>
initVars == <<Current, currentBefore, initCfg, opened, initPc, initErr>>
execVars == <<sshVars, localVars, initVars>>
vars == <<approvedCache, classifyVars, sessionVars, agentVars, execVars>>

None == [none |-> TRUE]

----------------------------------------------------------------------------
(* The Go strings package, on sequences of characters.                     *)

\* unicode.IsSpace restricted to the characters the model uses
IsSpace(c) == c \in {" ", "\t", "\n", "\r"}

RECURSIVE TrimLeftSpace(_)
TrimLeftSpace(s) ==
  IF s # <<>> /\ IsSpace(Head(s)) THEN TrimLeftSpace(Tail(s)) ELSE s

RECURSIVE TrimRightSpace(_)
TrimRightSpace(s) ==
  IF s # <<>> /\ IsSpace(s[Len(s)])
  THEN TrimRightSpace(SubSeq(s, 1, Len(s) - 1))
  ELSE s

\* strings.TrimSpace
TrimSpace(s) == TrimRightSpace(TrimLeftSpace(s))

\* strings.HasPrefix
HasPrefix(s, p) == Len(s) >= Len(p) /\ SubSeq(s, 1, Len(p)) = p

\* strings.HasSuffix
HasSuffix(s, p) ==
  Len(s) >= Len(p) /\ SubSeq(s, Len(s) - Len(p) + 1, Len(s)) = p

\* strings.TrimPrefix
TrimPrefix(s, p) == IF HasPrefix(s, p) THEN SubSeq(s, Len(p) + 1, Len(s)) ELSE s

\* strings.TrimSuffix
TrimSuffix(s, p) == IF HasSuffix(s, p) THEN SubSeq(s, 1, Len(s) - Len(p)) ELSE s

\* strings.Index, 0-based, -1 when sub does not occur
Index(s, sub) ==
  LET hits == {i \in 0..(Len(s) - Len(sub)) : SubSeq(s, i + 1, i + Len(sub)) = sub}
  IN IF hits = {} THEN -1 ELSE CHOOSE i \in hits : \A j \in hits : i <= j

\* strings.Contains
Contains(s, sub) == Index(s, sub) # -1

\* strings.ReplaceAll for a non-empty old: leftmost, non-overlapping
RECURSIVE ReplaceAll(_, _, _)
ReplaceAll(s, old, new) ==
  LET i == Index(s, old)
  IN IF i = -1 THEN s
     ELSE SubSeq(s, 1, i) \o new
          \o ReplaceAll(SubSeq(s, i + Len(old) + 1, Len(s)), old, new)

\* strings.Split for a non-empty sep: a sequence of texts
RECURSIVE Split(_, _)
Split(s, sep) ==
  LET i == Index(s, sep)
  IN IF i = -1 THEN <<s>>
     ELSE <<SubSeq(s, 1, i)>> \o Split(SubSeq(s, i + Len(sep) + 1, Len(s)), sep)

\* the first whitespace-delimited field of a text with no leading space
RECURSIVE TakeField(_)
TakeField(s) ==
  IF s = <<>> \/ IsSpace(Head(s)) THEN <<>> ELSE <<Head(s)>> \o TakeField(Tail(s))

\* strings.Fields
RECURSIVE Fields(_)
Fields(s) ==
  LET t == TrimLeftSpace(s)
  IN IF t = <<>> THEN <<>>
     ELSE LET f == TakeField(t)
          IN <<f>> \o Fields(SubSeq(t, Len(f) + 1, Len(t)))

\* unicode.ToLower on the ASCII letters
ToLowerChar(c) ==
  CASE c = "A" -> "a" [] c = "B" -> "b" [] c = "C" -> "c" [] c = "D" -> "d"
    [] c = "E" -> "e" [] c = "F" -> "f" [] c = "G" -> "g" [] c = "H" -> "h"
    [] c = "I" -> "i" [] c = "J" -> "j" [] c = "K" -> "k" [] c = "L" -> "l"
    [] c = "M" -> "m" [] c = "N" -> "n" [] c = "O" -> "o" [] c = "P" -> "p"
    [] c = "Q" -> "q" [] c = "R" -> "r" [] c = "S" -> "s" [] c = "T" -> "t"
    [] c = "U" -> "u" [] c = "V" -> "v" [] c = "W" -> "w" [] c = "X" -> "x"
    [] c = "Y" -> "y" [] c = "Z" -> "z" [] OTHER -> c

\* strings.ToLower
ToLower(s) == [i \in 1..Len(s) |-> ToLowerChar(s[i])]

\* strings.EqualFold on ASCII text
EqualFold(a, b) == ToLower(a) = ToLower(b)

RECURSIVE TrimLeftSet(_, _)
TrimLeftSet(s, cutset) ==
  IF s # <<>> /\ Head(s) \in cutset THEN TrimLeftSet(Tail(s), cutset) ELSE s

RECURSIVE TrimRightSet(_, _)
TrimRightSet(s, cutset) ==
  IF s # <<>> /\ s[Len(s)] \in cutset
  THEN TrimRightSet(SubSeq(s, 1, Len(s) - 1), cutset)
  ELSE s

\* strings.Trim, the cutset given as a set of characters
Trim(s, cutset) == TrimRightSet(TrimLeftSet(s, cutset), cutset)

\* the concatenation of a sequence of texts
RECURSIVE Flatten(_)
Flatten(ss) == IF ss = <<>> THEN <<>> ELSE Head(ss) \o Flatten(Tail(ss))

\* all sequences over S of length at most n
SeqsUpTo(S, n) == UNION {[1..k -> S] : k \in 0..n}

----------------------------------------------------------------------------
(* package security: the risk classifier (src/internal/config/config.go).  *)

\* the literal "local_run "
LocalRunPrefix == <<"l","o","c","a","l","_","r","u","n"," ">>

\* the literal "::SPLIT::"
SplitMarker == <<":",":","S","P","L","I","T",":",":">>

\* cleanShellWrapper's prefixes, in the order the code tries them
ShellPrefixes == <<
  <<"/","b","i","n","/","s","h"," ","-","c">>,
  <<"s","h"," ","-","c">>,
  <<"/","b","i","n","/","b","a","s","h"," ","-","c">>,
  <<"b","a","s","h"," ","-","c">>,
  <<"c","m","d"," ","/","c">>,
  <<"p","o","w","e","r","s","h","e","l","l"," ","-","C","o","m","m","a","n","d">>,
  <<"p","o","w","e","r","s","h","e","l","l"," ","-","c">> >>

lowRiskVerbs == {
  <<"l","s">>, <<"d","i","r">>, <<"p","w","d">>, <<"c","d">>, <<"c","a","t">>,
  <<"e","c","h","o">>, <<"h","e","a","d">>, <<"t","a","i","l">>, <<"m","o","r","e">>,
  <<"l","e","s","s">>, <<"t","r","e","e">>, <<"f","i","n","d">>, <<"g","r","e","p">>,
  <<"f","i","n","d","s","t","r">>, <<"s","t","a","t">>, <<"f","i","l","e">>,
  <<"w","h","e","r","e">>, <<"w","h","i","c","h">>, <<"w","h","o","a","m","i">>, <<"i","d">>,
  <<"h","o","s","t","n","a","m","e">>, <<"u","n","a","m","e">>, <<"u","p","t","i","m","e">>,
  <<"d","a","t","e">>, <<"w">>, <<"p","s">>, <<"t","o","p">>,
  <<"t","a","s","k","l","i","s","t">>, <<"f","r","e","e">>, <<"d","f">>, <<"d","u">>,
  <<"i","p","c","o","n","f","i","g">>, <<"i","f","c","o","n","f","i","g">>, <<"i","p">>,
  <<"n","e","t","s","t","a","t">>, <<"s","s">>, <<"p","i","n","g">>, <<"a","r","p">>,
  <<"r","o","u","t","e">>, <<"n","s","l","o","o","k","u","p">>, <<"d","i","g">>,
  <<"w","m","i","c">>, <<"v","e","r">>, <<"m","k","d","i","r">>, <<"t","o","u","c","h">>,
  <<"t","y","p","e">>, <<"g","e","t","-","c","h","i","l","d","i","t","e","m">>, <<"g","c","i">>,
  <<"g","e","t","-","c","o","n","t","e","n","t">>, <<"g","c">>,
  <<"g","e","t","-","l","o","c","a","t","i","o","n">>, <<"g","l">>,
  <<"g","e","t","-","p","r","o","c","e","s","s">>, <<"g","p","s">>,
  <<"g","e","t","-","s","e","r","v","i","c","e">>, <<"g","s","v">>,
  <<"g","e","t","-","d","a","t","e">>, <<"g","e","t","-","h","o","s","t">>,
  <<"w","r","i","t","e","-","h","o","s","t">>,
  <<"w","r","i","t","e","-","o","u","t","p","u","t">>,
  <<"s","e","l","e","c","t","-","o","b","j","e","c","t">>,
  <<"w","h","e","r","e","-","o","b","j","e","c","t">>,
  <<"f","o","r","e","a","c","h","-","o","b","j","e","c","t">>
}

highRiskVerbs == {
  <<"r","m">>, <<"d","e","l">>, <<"e","r","a","s","e">>, <<"r","m","d","i","r">>, <<"m","v">>,
  <<"m","o","v","e">>, <<"c","p">>, <<"c","o","p","y">>, <<"m","k","f","s">>,
  <<"f","o","r","m","a","t">>, <<"f","d","i","s","k">>, <<"d","d">>, <<"s","h","r","e","d">>,
  <<"w","i","p","e">>, <<"r","e","b","o","o","t">>, <<"s","h","u","t","d","o","w","n">>,
  <<"h","a","l","t">>, <<"p","o","w","e","r","o","f","f">>, <<"i","n","i","t">>,
  <<"s","y","s","t","e","m","c","t","l">>, <<"s","e","r","v","i","c","e">>, <<"s","c">>,
  <<"r","e","g">>, <<"c","h","m","o","d">>, <<"c","h","o","w","n">>, <<"c","h","g","r","p">>,
  <<"a","t","t","r","i","b">>, <<"u","s","e","r","a","d","d">>, <<"u","s","e","r","m","o","d">>,
  <<"u","s","e","r","d","e","l">>, <<"p","a","s","s","w","d">>, <<"s","u","d","o">>,
  <<"s","u">>, <<"k","i","l","l">>, <<"p","k","i","l","l">>, <<"k","i","l","l","a","l","l">>,
  <<"t","a","s","k","k","i","l","l">>, <<"w","g","e","t">>, <<"c","u","r","l">>, <<"n","c">>,
  <<"n","c","a","t">>, <<"i","n","v","o","k","e","-","e","x","p","r","e","s","s","i","o","n">>,
  <<"i","e","x">>, <<"s","t","a","r","t","-","p","r","o","c","e","s","s">>
}

\* A verdict is the pair of results (riskLevel, reason).  A reason is the
\* message text of the source (given here in ASCII) and the verb formatted
\* into it, if any.
Verdict(level, text, verb) == [level |-> level, text |-> text, verb |-> verb]

ReasonEmpty      == "empty command"                          \* "空命令"
ReasonApproved   == "authorized by the user (Session)"       \* "用户已授权 (Session)"
ReasonRedirect   == "file redirection detected (>)"          \* "检测到文件重定向 (>)"
ReasonSafe       == "safe operation"                         \* "安全操作"
ReasonSensitive  == "sensitive instruction: %s"              \* "敏感指令: %s"
ReasonUnknown    == "unknown instruction(%s), needs manual confirmation"
                                                             \* "未知指令(%s)，需人工确认"

\* fmt.Sprintf("%x", md5.Sum([]byte(cmd))): the digest of the text.  MD5 has
\* no collisions among the short texts of the model, so the digest is
\* modelled as an injective tag of the text.
Md5Hex(s) == <<"md5", s>>

\* (mutant) the text is approved as given, not trimmed
RecordApprovalTextRaw(c) == c

\* RecordApproval, line 110: the text that is approved
RecordApprovalText(c) == TrimSpace(c)

\* (mutant) the store replaces the cache by the one fingerprint
StoreApprovalOverwrite(cache, hash) == {hash}

\* RecordApproval, line 118: approvedCache[hash] = true
StoreApproval(cache, hash) == cache \cup {hash}

\* RecordApproval as one step: the cache after the call
RecordApproval(c, cache) ==
  LET t == RecordApprovalText(c)
  IN IF t = <<>> THEN cache ELSE StoreApproval(cache, Md5Hex(t))

\* isApproved
isApproved(c, cache) ==
  LET t == TrimSpace(c)
  IN IF t = <<>> THEN FALSE ELSE Md5Hex(t) \in cache

\* cleanShellWrapper, the prefix loop: the first prefix that matches is cut
RECURSIVE StripShellPrefix(_, _)
StripShellPrefix(s, k) ==
  IF k > Len(ShellPrefixes) THEN s
  ELSE LET p == ShellPrefixes[k]
       IN IF Len(s) > Len(p) /\ EqualFold(SubSeq(s, 1, Len(p)), p)
          THEN TrimSpace(SubSeq(s, Len(p) + 1, Len(s)))
          ELSE StripShellPrefix(s, k + 1)

\* cleanShellWrapper, the quote rule: one layer of matching quotes
StripQuotes(s) ==
  IF Len(s) >= 2
     /\ \/ (s[1] = "\"" /\ s[Len(s)] = "\"")
        \/ (s[1] = "'" /\ s[Len(s)] = "'")
  THEN SubSeq(s, 2, Len(s) - 1)
  ELSE s

cleanShellWrapper(c) == TrimSpace(StripQuotes(StripShellPrefix(TrimSpace(c), 1)))

\* (mutant) the default policy for a verb in neither list is low
checkSingleCommandFailOpen(subCmd) ==
  LET s == TrimSpace(subCmd)
      parts == Fields(s)
  IN IF s = <<>> THEN Verdict("low", "", <<>>)
     ELSE IF Len(parts) = 0 THEN Verdict("low", "", <<>>)
     ELSE LET verb == Trim(ToLower(parts[1]), {"\"", "'"})
          IN IF verb \in lowRiskVerbs THEN Verdict("low", ReasonSafe, <<>>)
             ELSE IF verb \in highRiskVerbs THEN Verdict("high", ReasonSensitive, verb)
             ELSE Verdict("low", ReasonUnknown, verb)

\* checkSingleCommand
checkSingleCommand(subCmd) ==
  LET s == TrimSpace(subCmd)
      parts == Fields(s)
  IN IF s = <<>> THEN Verdict("low", "", <<>>)
     ELSE IF Len(parts) = 0 THEN Verdict("low", "", <<>>)
     ELSE LET verb == Trim(ToLower(parts[1]), {"\"", "'"})
          IN IF verb \in lowRiskVerbs THEN Verdict("low", ReasonSafe, <<>>)
             ELSE IF verb \in highRiskVerbs THEN Verdict("high", ReasonSensitive, verb)
             ELSE Verdict("high", ReasonUnknown, verb)

\* CheckRisk, step 1: the text that is analysed
AnalyzeCmd(c) ==
  cleanShellWrapper(IF HasPrefix(c, LocalRunPrefix)
                    THEN TrimPrefix(c, LocalRunPrefix)
                    ELSE c)

\* CheckRisk, step 3: the sub-commands
SubCmds(analyzeCmd) ==
  Split(ReplaceAll(ReplaceAll(ReplaceAll(analyzeCmd,
          <<"&","&">>, SplitMarker), <<";">>, SplitMarker), <<"|","|">>, SplitMarker),
        SplitMarker)

\* CheckRisk, step 4: the loop over the sub-commands
RECURSIVE CheckSubCmds(_)
CheckSubCmds(subs) ==
  IF subs = <<>> THEN Verdict("low", ReasonSafe, <<>>)
  ELSE LET r == checkSingleCommand(Head(subs))
       IN IF r.level = "high" THEN r ELSE CheckSubCmds(Tail(subs))

\* (mutant) the redirection is looked for only after the sub-commands
\* have been checked
CheckRiskUnapprovedSplitFirst(c) ==
  LET analyzeCmd == AnalyzeCmd(c)
      r == CheckSubCmds(SubCmds(analyzeCmd))
  IN IF r.level = "high" THEN r
     ELSE IF Contains(analyzeCmd, <<">">>) THEN Verdict("high", ReasonRedirect, <<>>)
     ELSE r

\* CheckRisk after the approval lookup (steps 1 to 4)
CheckRiskUnapproved(c) ==
  LET analyzeCmd == AnalyzeCmd(c)
  IN IF Contains(analyzeCmd, <<">">>)
     THEN Verdict("high", ReasonRedirect, <<>>)
     ELSE CheckSubCmds(SubCmds(analyzeCmd))

\* CheckRisk, given the contents of the approval cache
CheckRisk(c0, cache) ==
  LET c == TrimSpace(c0)
  IN IF c = <<>> THEN Verdict("low", ReasonEmpty, <<>>)
     ELSE IF isApproved(c, cache) THEN Verdict("low", ReasonApproved, <<>>)
     ELSE CheckRiskUnapproved(c)

----------------------------------------------------------------------------
(* SpecClassify: the classifier's functions applied to a bounded set of    *)
(* command texts.  A text is a concatenation of at most MaxPieces pieces.  *)

MaxPieces == 3

Pieces == {
  <<"l","s">>, <<"r","m">>, <<"x","x">>, <<"L","S">>,
  <<" ">>, <<";">>, <<"&","&">>, <<"|","|">>, <<" ","|"," ">>, <<" ","&"," ">>, <<"\n">>,
  <<">">>, <<"\"">>, <<"'">>,
  <<"s","h"," ","-","c"," ">>, LocalRunPrefix, SplitMarker }

InputCmds == {Flatten(ps) : ps \in SeqsUpTo(Pieces, MaxPieces)}

\* the cache before the call: empty, or holding one earlier approval
CachesBefore == {{}, RecordApproval(<<"r","m">>, {})}

ClassifyOff == cmd = <<>> /\ verdict = None /\ step = "off"

SessionOff ==
  /\ cacheMutex = [writer |-> 0, readers |-> {}]
  /\ pc = <<>> /\ arg = <<>> /\ approved = <<>> /\ ret = <<>>
  /\ started = {} /\ completed = {} /\ wasApproved = <<>> /\ neverApproved = <<>>
  /\ ncalls = 0

AgentOff ==
  /\ llmReply = <<>> /\ history = <<>> /\ startHistory = <<>> /\ llmCalls = <<>>
  /\ resp = None /\ stepErr = FALSE /\ phase = "off" /\ confirmed = FALSE
  /\ gateHigh = FALSE /\ lastExec = None /\ nappended = 0 /\ sumFailed = FALSE

SSHOff ==
  /\ mu = FALSE /\ stdin = <<>> /\ stdout = <<>> /\ runPc = <<>> /\ cmdStr = <<>>
  /\ endMarker = <<>> /\ outputLines = <<>> /\ readLog = <<>> /\ runRet = None
  /\ markers = <<>> /\ nruns = 0

LocalOff ==
  /\ files = <<>> /\ filesBefore = <<>> /\ localCmd = <<>> /\ localRet = None
  /\ localStep = "off" /\ processes = <<>>

InitOff ==
  /\ Current = None /\ currentBefore = None /\ initCfg = None /\ opened = {}
  /\ initPc = "off" /\ initErr = ""

ExecOff == SSHOff /\ LocalOff /\ InitOff

ClassifyInit ==
  /\ cmd \in InputCmds
  /\ approvedCache \in CachesBefore
  /\ verdict = None
  /\ step = "input"
  /\ SessionOff
  /\ AgentOff
  /\ ExecOff

\* a call of CheckRisk(cmd)
CallCheckRisk ==
  /\ step = "input"
  /\ verdict' = CheckRisk(cmd, approvedCache)
  /\ step' = "CheckRisk"
  /\ UNCHANGED <<execVars, cmd, approvedCache, sessionVars, agentVars>>

\* a call of checkSingleCommand(cmd)
CallCheckSingleCommand ==
  /\ step = "input"
  /\ verdict' = checkSingleCommand(cmd)
  /\ step' = "checkSingleCommand"
  /\ UNCHANGED <<execVars, cmd, approvedCache, sessionVars, agentVars>>

ClassifyNext == CallCheckRisk \/ CallCheckSingleCommand

SpecClassify == ClassifyInit /\ [][ClassifyNext]_vars

----------------------------------------------------------------------------
(* Claims about the classifier's functions.                                *)

\* the first word of a text that starts with no space: its characters up to
\* the first space
FirstWord(s) ==
  LET k == CHOOSE k \in 1..Len(s) :
             /\ \A i \in 1..k : ~IsSpace(s[i])
             /\ (k = Len(s) \/ IsSpace(s[k + 1]))
  IN SubSeq(s, 1, k)

\* the leading verb of a non-blank sub-command: its first word, lower-cased,
\* without the quotes around it
LeadingVerb(sub) == Trim(ToLower(FirstWord(TrimSpace(sub))), {"\"", "'"})

\* C4: for a non-blank sub-command, checkSingleCommand returns low exactly
\* when the leading verb is in the allow-list; for a verb in the deny-list it
\* returns high with the reason naming the verb, and for a verb in neither
\* list it returns high with the unknown-instruction reason.
C4_VerbPolicy ==
  (step = "checkSingleCommand" /\ TrimSpace(cmd) # <<>>) =>
    LET verb == LeadingVerb(cmd)
    IN /\ (verdict.level = "low") <=> (verb \in lowRiskVerbs)
       /\ verdict.level \in {"low", "high"}
       /\ verb \in highRiskVerbs => verdict = Verdict("high", ReasonSensitive, verb)
       /\ verb \notin (lowRiskVerbs \cup highRiskVerbs)
            => verdict = Verdict("high", ReasonUnknown, verb)

\* C4 witness: a sub-command whose leading verb is in neither list was
\* classified high by the fail-closed default.
C4_Witness ==
  /\ step = "checkSingleCommand"
  /\ cmd = <<"x","x"," ","r","m">>
  /\ verdict = Verdict("high", ReasonUnknown, <<"x","x">>)

\* the pieces of a text between the separators ";", "&&" and "||", found in
\* one scan from the left
RECURSIVE SeparatorSplit(_, _)
SeparatorSplit(s, acc) ==
  IF s = <<>> THEN <<acc>>
  ELSE IF HasPrefix(s, <<"&","&">>) \/ HasPrefix(s, <<"|","|">>)
       THEN <<acc>> \o SeparatorSplit(SubSeq(s, 3, Len(s)), <<>>)
  ELSE IF Head(s) = ";"
       THEN <<acc>> \o SeparatorSplit(Tail(s), <<>>)
  ELSE SeparatorSplit(Tail(s), Append(acc, Head(s)))

\* the case of C5 and C6: CheckRisk was called on a non-empty command that
\* is not approved
UnapprovedCall ==
  /\ step = "CheckRisk"
  /\ TrimSpace(cmd) # <<>>
  /\ ~isApproved(cmd, approvedCache)

\* C5: for an unapproved command with no redirection token, CheckRisk
\* returns the verdict of the first high-risk sub-command, the sub-commands
\* being the pieces of the normalized command between ";", "&&" and "||",
\* and returns low only if every sub-command is low.
C5_Escalation ==
  (UnapprovedCall /\ ~Contains(AnalyzeCmd(TrimSpace(cmd)), <<">">>)) =>
    LET subs == SeparatorSplit(AnalyzeCmd(TrimSpace(cmd)), <<>>)
        highs == {i \in 1..Len(subs) : checkSingleCommand(subs[i]).level = "high"}
    IN IF highs = {}
       THEN verdict.level = "low"
       ELSE verdict = checkSingleCommand(subs[CHOOSE i \in highs : \A j \in highs : i <= j])

\* C5 for the commands that do not contain the text "::SPLIT::"
C5_EscalationNoMarker ==
  ~Contains(cmd, SplitMarker) => C5_Escalation

\* C6: for an unapproved, non-empty command whose normalized text contains
\* ">", CheckRisk returns high with the redirection reason, whatever its
\* sub-commands are.
C6_Redirection ==
  (UnapprovedCall /\ Contains(AnalyzeCmd(TrimSpace(cmd)), <<">">>)) =>
    verdict = Verdict("high", ReasonRedirect, <<>>)

\* C6 witness: a command with a redirection whose first sub-command has a
\* deny-listed verb was classified by the redirection rule.
C6_Witness ==
  /\ UnapprovedCall
  /\ cmd = <<"r","m",">">>
  /\ checkSingleCommand(cmd).level = "high"
  /\ verdict = Verdict("high", ReasonRedirect, <<>>)

\* the characters at which the shell ends a clause: ";", "&" (alone, or
\* doubled in "&&"), "|" (alone, or doubled in "||") and the line end
ClauseEnds == {";", "&", "|", "\n"}

\* the clauses of a command text: its pieces between the clause ends
RECURSIVE ShellClauses(_, _)
ShellClauses(s, clause) ==
  IF s = <<>> THEN <<clause>>
  ELSE IF Head(s) \in ClauseEnds THEN <<clause>> \o ShellClauses(Tail(s), <<>>)
  ELSE ShellClauses(Tail(s), Append(clause, Head(s)))

\* C23: a compound command is only as safe as its riskiest clause, for
\* every way the shell chains clauses: for an unapproved command CheckRisk
\* returns low only if the leading verb of every clause (the clauses being
\* separated by ";", "&&", "||", "|", "&" or a line end) is in the
\* allow-list.
C23_EveryClauseAllowed ==
  (UnapprovedCall /\ verdict.level = "low") =>
     \A i \in DOMAIN ShellClauses(AnalyzeCmd(TrimSpace(cmd)), <<>>) :
        \/ TrimSpace(ShellClauses(AnalyzeCmd(TrimSpace(cmd)), <<>>)[i]) = <<>>
        \/ LeadingVerb(ShellClauses(AnalyzeCmd(TrimSpace(cmd)), <<>>)[i]) \in lowRiskVerbs

----------------------------------------------------------------------------
(* SpecSession: goroutines calling RecordApproval and CheckRisk            *)
(* concurrently on the one approval cache, each call taken step by step    *)
(* through cacheMutex (a sync.RWMutex: one writer, or any number of        *)
(* readers).                                                               *)

NumGoroutines == 2

\* the number of calls the goroutines make in one run of the model
MaxCalls == 3

Goroutines == 1..NumGoroutines

\* the command texts of the session: a blank text, a deny-listed verb with
\* and without surrounding space, and a compound command with a redirection
SessionCmds == {
  <<" ">>, <<"r","m">>, <<" ","r","m"," ">>, <<"l","s",";","r","m",">">> }

SameText(a, b) == TrimSpace(a) = TrimSpace(b)

SessionInit ==
  /\ approvedCache = {}
  /\ cacheMutex = [writer |-> 0, readers |-> {}]
  /\ pc = [p \in Goroutines |-> "idle"]
  /\ arg = [p \in Goroutines |-> <<>>]
  /\ approved = [p \in Goroutines |-> FALSE]
  /\ ret = [p \in Goroutines |-> None]
  /\ started = {}
  /\ completed = {}
  /\ wasApproved = [p \in Goroutines |-> FALSE]
  /\ neverApproved = [p \in Goroutines |-> FALSE]
  /\ ncalls = 0
  /\ ClassifyOff
  /\ AgentOff
  /\ ExecOff

\* RecordApproval(c) up to cacheMutex.Lock(): lines 109-114
RA_Call(p, c) ==
  /\ pc[p] = "idle"
  /\ ncalls < MaxCalls
  /\ ncalls' = ncalls + 1
  /\ arg' = [arg EXCEPT ![p] = c]
  /\ ret' = [ret EXCEPT ![p] = None]
  /\ started' = started \cup {TrimSpace(c)}
  /\ IF RecordApprovalText(c) = <<>>
     THEN /\ completed' = completed \cup {TrimSpace(c)}
          /\ pc' = pc
     ELSE /\ completed' = completed
          /\ pc' = [pc EXCEPT ![p] = "ra_lock"]
  /\ UNCHANGED <<execVars, approvedCache, cacheMutex, approved, wasApproved, neverApproved,
                 classifyVars, agentVars>>

\* cacheMutex.Lock(): line 116
RA_Lock(p) ==
  /\ pc[p] = "ra_lock"
  /\ cacheMutex.writer = 0 /\ cacheMutex.readers = {}
  /\ cacheMutex' = [cacheMutex EXCEPT !.writer = p]
  /\ pc' = [pc EXCEPT ![p] = "ra_store"]
  /\ UNCHANGED <<execVars, approvedCache, arg, approved, ret, started, completed,
                 wasApproved, neverApproved, ncalls, classifyVars, agentVars>>

\* approvedCache[hash] = true: line 118
RA_Store(p) ==
  /\ pc[p] = "ra_store"
  /\ approvedCache' = StoreApproval(approvedCache, Md5Hex(RecordApprovalText(arg[p])))
  /\ pc' = [pc EXCEPT ![p] = "ra_unlock"]
  /\ UNCHANGED <<execVars, cacheMutex, arg, approved, ret, started, completed,
                 wasApproved, neverApproved, ncalls, classifyVars, agentVars>>

\* the deferred cacheMutex.Unlock() and the return: line 117
RA_Unlock(p) ==
  /\ pc[p] = "ra_unlock"
  /\ cacheMutex' = [cacheMutex EXCEPT !.writer = 0]
  /\ completed' = completed \cup {TrimSpace(arg[p])}
  /\ pc' = [pc EXCEPT ![p] = "idle"]
  /\ UNCHANGED <<execVars, approvedCache, arg, approved, ret, started,
                 wasApproved, neverApproved, ncalls, classifyVars, agentVars>>

\* CheckRisk(c) up to isApproved's cacheMutex.RLock(): lines 136-143, 122-127
CR_Call(p, c) ==
  /\ pc[p] = "idle"
  /\ ncalls < MaxCalls
  /\ ncalls' = ncalls + 1
  /\ arg' = [arg EXCEPT ![p] = c]
  /\ wasApproved' = [wasApproved EXCEPT ![p] = \E a \in completed : SameText(a, c)]
  /\ IF TrimSpace(c) = <<>>
     THEN /\ ret' = [ret EXCEPT ![p] = Verdict("low", ReasonEmpty, <<>>)]
          /\ neverApproved' = [neverApproved EXCEPT ![p] = \A a \in started : ~SameText(a, c)]
          /\ pc' = pc
     ELSE /\ ret' = [ret EXCEPT ![p] = None]
          /\ neverApproved' = [neverApproved EXCEPT ![p] = FALSE]
          /\ pc' = [pc EXCEPT ![p] = "cr_rlock"]
  /\ UNCHANGED <<execVars, approvedCache, cacheMutex, approved, started, completed, classifyVars, agentVars>>

\* cacheMutex.RLock(): line 129
CR_RLock(p) ==
  /\ pc[p] = "cr_rlock"
  /\ cacheMutex.writer = 0
  /\ cacheMutex' = [cacheMutex EXCEPT !.readers = @ \cup {p}]
  /\ pc' = [pc EXCEPT ![p] = "cr_load"]
  /\ UNCHANGED <<execVars, approvedCache, arg, approved, ret, started, completed,
                 wasApproved, neverApproved, ncalls, classifyVars, agentVars>>

\* return approvedCache[hash]: line 131
CR_Load(p) ==
  /\ pc[p] = "cr_load"
  /\ approved' = [approved EXCEPT ![p] = isApproved(TrimSpace(arg[p]), approvedCache)]
  /\ pc' = [pc EXCEPT ![p] = "cr_runlock"]
  /\ UNCHANGED <<execVars, approvedCache, cacheMutex, arg, ret, started, completed,
                 wasApproved, neverApproved, ncalls, classifyVars, agentVars>>

\* the deferred cacheMutex.RUnlock(): line 130
CR_RUnlock(p) ==
  /\ pc[p] = "cr_runlock"
  /\ cacheMutex' = [cacheMutex EXCEPT !.readers = @ \ {p}]
  /\ pc' = [pc EXCEPT ![p] = "cr_rest"]
  /\ UNCHANGED <<execVars, approvedCache, arg, approved, ret, started, completed,
                 wasApproved, neverApproved, ncalls, classifyVars, agentVars>>

\* the rest of CheckRisk and its return: lines 143-179
CR_Return(p) ==
  /\ pc[p] = "cr_rest"
  /\ ret' = [ret EXCEPT ![p] =
               IF approved[p] THEN Verdict("low", ReasonApproved, <<>>)
               ELSE CheckRiskUnapproved(TrimSpace(arg[p]))]
  /\ neverApproved' = [neverApproved EXCEPT ![p] = \A a \in started : ~SameText(a, arg[p])]
  /\ pc' = [pc EXCEPT ![p] = "idle"]
  /\ UNCHANGED <<execVars, approvedCache, cacheMutex, arg, approved, started, completed,
                 wasApproved, ncalls, classifyVars, agentVars>>

RecordApprovalStep(p) ==
  \/ \E c \in SessionCmds : RA_Call(p, c)
  \/ RA_Lock(p)
  \/ RA_Store(p)
  \/ RA_Unlock(p)

CheckRiskStep(p) ==
  \/ \E c \in SessionCmds : CR_Call(p, c)
  \/ CR_RLock(p)
  \/ CR_Load(p)
  \/ CR_RUnlock(p)
  \/ CR_Return(p)

SessionNext == \E p \in Goroutines : RecordApprovalStep(p) \/ CheckRiskStep(p)

SpecSession == SessionInit /\ [][SessionNext]_vars

----------------------------------------------------------------------------
(* Claims about the approval cache.                                        *)

\* C3: a CheckRisk call that began after a RecordApproval of the same
\* trimmed, non-empty text had returned answers low with the "authorized"
\* reason, whatever the text contains; a CheckRisk call on a text of which
\* no approval was ever called answers what it answers on an empty cache,
\* whatever other texts were approved meanwhile.
C3_ApprovalBypass ==
  \A p \in Goroutines :
    (pc[p] = "idle" /\ ret[p] # None) =>
      /\ (wasApproved[p] /\ TrimSpace(arg[p]) # <<>>)
           => ret[p] = Verdict("low", ReasonApproved, <<>>)
      /\ neverApproved[p] => ret[p] = CheckRisk(arg[p], {})

\* C3 witness: the compound command with a redirection was approved and a
\* later CheckRisk of it returned low, while a CheckRisk of another text,
\* never approved, returned its high verdict.
C3_Witness ==
  \E p, q \in Goroutines :
    /\ p # q
    /\ pc[p] = "idle" /\ arg[p] = <<"l","s",";","r","m",">">>
    /\ wasApproved[p] /\ ret[p] = Verdict("low", ReasonApproved, <<>>)
    /\ pc[q] = "idle" /\ arg[q] = <<" ","r","m"," ">>
    /\ neverApproved[q] /\ ret[q] = Verdict("high", ReasonSensitive, <<"r","m">>)

\* every text whose RecordApproval has returned is in the cache
NoApprovalLost ==
  \A c \in completed : c # <<>> => Md5Hex(c) \in approvedCache

\* C7: in every step of every interleaving, the cache keeps what it holds;
\* it changes only in the store of a goroutine inside RecordApproval, and
\* then by the fingerprint of that call's trimmed, non-empty text alone (so
\* not in CheckRisk, not for a blank text, and not at all when the
\* fingerprint is already there); and no returned RecordApproval is lost.
C7_CacheOnlyGrows ==
  [][ /\ approvedCache \subseteq approvedCache'
      /\ \A h \in approvedCache' \ approvedCache :
           \E p \in Goroutines :
             /\ pc[p] = "ra_store" /\ pc'[p] = "ra_unlock"
             /\ TrimSpace(arg[p]) # <<>>
             /\ h = Md5Hex(TrimSpace(arg[p]))
      /\ (\A p \in Goroutines : pc[p] = "ra_store" /\ pc'[p] = "ra_unlock"
            => approvedCache' = approvedCache \cup {Md5Hex(TrimSpace(arg[p]))})
      /\ Md5Hex(<<>>) \notin approvedCache'
      /\ NoApprovalLost'
    ]_vars

\* C7 witness: with one approval already returned and in the cache, one
\* goroutine has stored a second fingerprint and still holds the lock
\* while another waits to read.
C7_Witness ==
  \E p, q \in Goroutines :
    /\ pc[p] = "ra_unlock" /\ cacheMutex.writer = p
    /\ pc[q] = "cr_rlock"
    /\ completed # {} /\ NoApprovalLost
    /\ Cardinality(approvedCache) = 2

----------------------------------------------------------------------------
(* encoding/json, as far as RunAgentStep uses it: json.Unmarshal of a text *)
(* into a CompatibilityResponse.  A JSON value is a record of its type t   *)
(* and its content v; an object's content is the sequence of its           *)
(* <<key, value>> members in the order of the text.                        *)
(* Not modelled: \uXXXX escapes (the texts of the model hold none; one is  *)
(* reported as a syntax error).                                            *)

JString(v) == [t |-> "string", v |-> v]
JBool(b)   == [t |-> "bool", v |-> b]
JNull      == [t |-> "null", v |-> <<>>]
JNumber(x) == [t |-> "number", v |-> x]
JArray(vs) == [t |-> "array", v |-> vs]
JObject(m) == [t |-> "object", v |-> m]

\* the result of a parsing step: where it stopped and what it read
Parsed(pos, val) == [ok |-> TRUE, pos |-> pos, val |-> val]
SyntaxError == [ok |-> FALSE, pos |-> 0, val |-> JNull]

Digits == {"0","1","2","3","4","5","6","7","8","9"}

\* the backspace character, which a TLA+ string cannot hold
Backspace == "<BS>"

RECURSIVE SkipSpace(_, _)
SkipSpace(s, i) == IF i <= Len(s) /\ IsSpace(s[i]) THEN SkipSpace(s, i + 1) ELSE i

\* a string literal, from the character after its opening quote
RECURSIVE ScanString(_, _, _)
ScanString(s, i, acc) ==
  IF i > Len(s) THEN SyntaxError
  ELSE IF s[i] = "\"" THEN Parsed(i + 1, JString(acc))
  ELSE IF s[i] = "\\"
       THEN IF i + 1 > Len(s) THEN SyntaxError
            ELSE LET e == s[i + 1]
                 IN IF e \in {"\"", "\\", "/"} THEN ScanString(s, i + 2, Append(acc, e))
                    ELSE IF e = "n" THEN ScanString(s, i + 2, Append(acc, "\n"))
                    ELSE IF e = "r" THEN ScanString(s, i + 2, Append(acc, "\r"))
                    ELSE IF e = "t" THEN ScanString(s, i + 2, Append(acc, "\t"))
                    ELSE IF e = "f" THEN ScanString(s, i + 2, Append(acc, "\f"))
                    ELSE IF e = "b" THEN ScanString(s, i + 2, Append(acc, Backspace))
                    ELSE SyntaxError
  ELSE IF s[i] \in {"\n", "\r", "\t", "\f", Backspace} THEN SyntaxError
  ELSE ScanString(s, i + 1, Append(acc, s[i]))

RECURSIVE SkipDigits(_, _)
SkipDigits(s, i) == IF i <= Len(s) /\ s[i] \in Digits THEN SkipDigits(s, i + 1) ELSE i

\* a number literal: -? (0 | [1-9][0-9]*) (. [0-9]+)? ([eE] [+-]? [0-9]+)?
\* Each part is given where the part before it ended, 0 for a syntax error,
\* and answers where it ends.
DigitsFrom(s, x) == IF SkipDigits(s, x) = x THEN 0 ELSE SkipDigits(s, x)

NumberInt(s, a) ==
  IF a > Len(s) \/ s[a] \notin Digits THEN 0
  ELSE IF s[a] = "0" THEN a + 1
  ELSE SkipDigits(s, a)

NumberFrac(s, b) ==
  IF b = 0 THEN 0
  ELSE IF b <= Len(s) /\ s[b] = "." THEN DigitsFrom(s, b + 1)
  ELSE b

NumberExp(s, c) ==
  IF c = 0 THEN 0
  ELSE IF c <= Len(s) /\ s[c] \in {"e", "E"}
       THEN DigitsFrom(s, IF c + 1 <= Len(s) /\ s[c + 1] \in {"+", "-"}
                          THEN c + 2 ELSE c + 1)
  ELSE c

NumberUpTo(s, i, d) ==
  IF d = 0 THEN SyntaxError ELSE Parsed(d, JNumber(SubSeq(s, i, d - 1)))

ScanNumber(s, i) ==
  NumberUpTo(s, i, NumberExp(s, NumberFrac(s, NumberInt(s, IF s[i] = "-" THEN i + 1 ELSE i))))

ScanLiteral(s, i, word, val) ==
  IF i + Len(word) - 1 <= Len(s) /\ SubSeq(s, i, i + Len(word) - 1) = word
  THEN Parsed(i + Len(word), val)
  ELSE SyntaxError

RECURSIVE ScanValue(_, _)
RECURSIVE ScanElements(_, _, _)
RECURSIVE ScanMembers(_, _, _)

\* an array: after an element and the spaces behind it, at s[j]
ElementsAfterSpace(s, acc, j) ==
  IF j > Len(s) THEN SyntaxError
  ELSE IF s[j] = "]" THEN Parsed(j + 1, JArray(acc))
  ELSE IF s[j] = "," THEN ScanElements(s, SkipSpace(s, j + 1), acc)
  ELSE SyntaxError

\* an array: after the element e
ElementsAfterValue(s, acc, e) ==
  IF ~e.ok THEN SyntaxError
  ELSE ElementsAfterSpace(s, Append(acc, e.val), SkipSpace(s, e.pos))

\* the elements of an array, from the first character of an element
ScanElements(s, i, acc) == ElementsAfterValue(s, acc, ScanValue(s, i))

\* an object: after a member and the spaces behind it, at s[j]
MembersAfterSpace(s, acc, j) ==
  IF j > Len(s) THEN SyntaxError
  ELSE IF s[j] = "}" THEN Parsed(j + 1, JObject(acc))
  ELSE IF s[j] = "," THEN ScanMembers(s, SkipSpace(s, j + 1), acc)
  ELSE SyntaxError

\* an object: after the value e of the member key
MembersAfterValue(s, acc, key, e) ==
  IF ~e.ok THEN SyntaxError
  ELSE MembersAfterSpace(s, Append(acc, <<key, e.val>>), SkipSpace(s, e.pos))

\* an object: after the member key and the spaces behind it, at s[c]
MembersAtColon(s, acc, key, c) ==
  IF c > Len(s) \/ s[c] # ":" THEN SyntaxError
  ELSE MembersAfterValue(s, acc, key, ScanValue(s, SkipSpace(s, c + 1)))

\* an object: after the key k
MembersAfterKey(s, acc, k) ==
  IF ~k.ok THEN SyntaxError
  ELSE MembersAtColon(s, acc, k.val.v, SkipSpace(s, k.pos))

\* the members of an object, from the opening quote of a key
ScanMembers(s, i, acc) ==
  IF i > Len(s) \/ s[i] # "\"" THEN SyntaxError
  ELSE MembersAfterKey(s, acc, ScanString(s, i + 1, <<>>))

\* an object / an array from the first character after the opening bracket
ObjectFrom(s, j) ==
  IF j <= Len(s) /\ s[j] = "}" THEN Parsed(j + 1, JObject(<<>>))
  ELSE ScanMembers(s, j, <<>>)

ArrayFrom(s, j) ==
  IF j <= Len(s) /\ s[j] = "]" THEN Parsed(j + 1, JArray(<<>>))
  ELSE ScanElements(s, j, <<>>)

\* a value that starts at s[i]
ScanValue(s, i) ==
  IF i > Len(s) THEN SyntaxError
  ELSE IF s[i] = "\"" THEN ScanString(s, i + 1, <<>>)
  ELSE IF s[i] = "{" THEN ObjectFrom(s, SkipSpace(s, i + 1))
  ELSE IF s[i] = "[" THEN ArrayFrom(s, SkipSpace(s, i + 1))
  ELSE IF s[i] = "t" THEN ScanLiteral(s, i, <<"t","r","u","e">>, JBool(TRUE))
  ELSE IF s[i] = "f" THEN ScanLiteral(s, i, <<"f","a","l","s","e">>, JBool(FALSE))
  ELSE IF s[i] = "n" THEN ScanLiteral(s, i, <<"n","u","l","l">>, JNull)
  ELSE IF s[i] = "-" \/ s[i] \in Digits THEN ScanNumber(s, i)
  ELSE SyntaxError

\* a parsed value r is the whole text if only spaces follow it
WholeText(s, r) ==
  IF r.ok /\ SkipSpace(s, r.pos) > Len(s) THEN r ELSE SyntaxError

\* the whole text as one JSON value (json.checkValid and the decoding)
ParseJSON(s) == WholeText(s, ScanValue(s, SkipSpace(s, 1)))

----------------------------------------------------------------------------
(* json.Unmarshal into a CompatibilityResponse (executor.go, 442-450).     *)

\* the zero CompatibilityResponse; FinalReport is a JSON value, JNull for nil
ZeroCompat ==
  [Thought |-> <<>>, Command |-> <<>>, RiskLevel |-> <<>>, IsFinished |-> FALSE,
   FinalReport |-> JNull, CmdArray |-> <<>>, Explanation |-> <<>>]

\* the json tags of the struct's fields
CompatTags == <<
  <<"Thought",     <<"t","h","o","u","g","h","t">> >>,
  <<"Command",     <<"c","o","m","m","a","n","d">> >>,
  <<"RiskLevel",   <<"r","i","s","k","_","l","e","v","e","l">> >>,
  <<"IsFinished",  <<"i","s","_","f","i","n","i","s","h","e","d">> >>,
  <<"FinalReport", <<"f","i","n","a","l","_","r","e","p","o","r","t">> >>,
  <<"CmdArray",    <<"c","m","d">> >>,
  <<"Explanation", <<"e","x","p","l","a","n","a","t","i","o","n">> >> >>

\* the field a key decodes into ("" for none): the tag that equals the key,
\* else the tag that equals it but for the case of its letters
FieldOf(key) ==
  LET exact == {i \in 1..Len(CompatTags) : CompatTags[i][2] = key}
      fold  == {i \in 1..Len(CompatTags) : EqualFold(CompatTags[i][2], key)}
  IN IF exact # {} THEN CompatTags[CHOOSE i \in exact : TRUE][1]
     ELSE IF fold # {} THEN CompatTags[CHOOSE i \in fold : TRUE][1]
     ELSE ""

\* the elements of a JSON array decoded into a []string: an element that is
\* no string stays "" and, unless it is null, is a type error
ElementStrings(vs) ==
  [i \in 1..Len(vs) |-> IF vs[i].t = "string" THEN vs[i].v ELSE <<>>]

ElementsMismatch(vs) == \E i \in 1..Len(vs) : vs[i].t \notin {"string", "null"}

\* a value decoded into the field f of the struct ("" for no field): the
\* struct after it and whether the value did not fit the field (an
\* UnmarshalTypeError, which the decoder records and goes on)
DecodeInto(c, f, val) ==
  IF f = "" THEN [compat |-> c, mismatch |-> FALSE]
  ELSE IF f = "FinalReport" THEN [compat |-> [c EXCEPT !.FinalReport = val], mismatch |-> FALSE]
  ELSE IF val.t = "null"
       THEN [compat |-> IF f = "CmdArray" THEN [c EXCEPT !.CmdArray = <<>>] ELSE c,
             mismatch |-> FALSE]
  ELSE IF f = "IsFinished"
       THEN IF val.t = "bool"
            THEN [compat |-> [c EXCEPT !.IsFinished = val.v], mismatch |-> FALSE]
            ELSE [compat |-> c, mismatch |-> TRUE]
  ELSE IF f = "CmdArray"
       THEN IF val.t = "array"
            THEN [compat |-> [c EXCEPT !.CmdArray = ElementStrings(val.v)],
                  mismatch |-> ElementsMismatch(val.v)]
            ELSE [compat |-> c, mismatch |-> TRUE]
  ELSE IF val.t = "string"
       THEN [compat |-> [c EXCEPT ![f] = val.v], mismatch |-> FALSE]
       ELSE [compat |-> c, mismatch |-> TRUE]

\* one member decoded into the struct
DecodeMember(c, key, val) == DecodeInto(c, FieldOf(key), val)

RECURSIVE DecodeMembers(_, _, _)

\* the members after one that decoded as d
DecodeRest(d, members, mismatch) ==
  DecodeMembers(d.compat, members, mismatch \/ d.mismatch)

\* the members of an object decoded in the order of the text
DecodeMembers(c, members, mismatch) ==
  IF members = <<>> THEN [compat |-> c, mismatch |-> mismatch]
  ELSE DecodeRest(DecodeMember(c, Head(members)[1], Head(members)[2]),
                  Tail(members), mismatch)

\* the result of decoding an object's members
Decoded(d) ==
  [err |-> IF d.mismatch THEN "UnmarshalTypeError" ELSE "", compat |-> d.compat]

\* the parsed text p decoded into the struct
UnmarshalParsed(p, compat) ==
  IF ~p.ok THEN [err |-> "SyntaxError", compat |-> compat]
  ELSE IF p.val.t = "null" THEN [err |-> "", compat |-> compat]
  ELSE IF p.val.t # "object" THEN [err |-> "UnmarshalTypeError", compat |-> compat]
  ELSE Decoded(DecodeMembers(compat, p.val.v, FALSE))

\* json.Unmarshal([]byte(text), &compat): the error ("" for nil) and the
\* struct afterwards.  A text that is not valid JSON leaves the struct as it
\* was; a value that does not fit leaves the other fields decoded.
Unmarshal(text, compat) == UnmarshalParsed(ParseJSON(text), compat)

----------------------------------------------------------------------------
(* package analyzer: the interpretation of the model's response            *)
(* (executor.go, 492-595 and 624-730).  The message texts of the source    *)
(* are written as one token each, in ASCII.                                *)

\* the backquote character, which a TLA+ string cannot hold
Backquote == "<backquote>"

Fence     == <<Backquote, Backquote, Backquote>>
FenceJson == Fence \o <<"j","s","o","n">>

\* cleanJSON, lines 647-652: a backslash before a pipe is doubled
EscapePipes(s) ==
  IF Contains(s, <<"\\","|">>)
  THEN ReplaceAll(s, <<"\\","|">>, <<"\\","\\","|">>)
  ELSE s

\* cleanJSON
cleanJSON(raw) ==
  EscapePipes(TrimSpace(TrimSuffix(TrimPrefix(TrimPrefix(TrimSpace(raw),
                                                         FenceJson), Fence), Fence)))

\* the key that extractCommandString looks for: "command", with its quotes
CommandKey == <<"\"","c","o","m","m","a","n","d","\"">>

\* extractCommandString, step 2: skip spaces, colons and line ends
RECURSIVE SkipToValue(_, _)
SkipToValue(s, cursor) ==
  IF cursor <= Len(s) /\ s[cursor] \in {" ", ":", "\n", "\r"}
  THEN SkipToValue(s, cursor + 1)
  ELSE cursor

\* extractCommandString, step 3: the first quote at or after the cursor,
\* 0 for none
RECURSIVE FindQuote(_, _)
FindQuote(s, i) ==
  IF i > Len(s) THEN 0
  ELSE IF s[i] = "\"" THEN i
  ELSE FindQuote(s, i + 1)

NotFound == [cmd |-> <<>>, found |-> FALSE]

\* a variant of ScanCommand that keeps backslash-slash as it is
RECURSIVE ScanCommandSlashKept(_, _, _, _)
ScanCommandSlashKept(s, i, inEscape, result) ==
  IF i > Len(s) THEN NotFound
  ELSE IF inEscape
    THEN ScanCommandSlashKept(s, i + 1, FALSE,
           IF s[i] \in {"\"", "\\"} THEN Append(result, s[i])
           ELSE IF s[i] = "n" THEN Append(result, "\n")
           ELSE IF s[i] = "r" THEN Append(result, "\r")
           ELSE IF s[i] = "t" THEN Append(result, "\t")
           ELSE result \o <<"\\", s[i]>>)
  ELSE IF s[i] = "\\" THEN ScanCommandSlashKept(s, i + 1, TRUE, result)
  ELSE IF s[i] = "\"" THEN [cmd |-> result, found |-> TRUE]
  ELSE ScanCommandSlashKept(s, i + 1, FALSE, Append(result, s[i]))

\* extractCommandString, step 4: the scan from the character after the
\* opening quote
RECURSIVE ScanCommand(_, _, _, _)
ScanCommand(s, i, inEscape, result) ==
  IF i > Len(s) THEN NotFound
  ELSE LET char == s[i]
       IN IF inEscape
          THEN ScanCommand(s, i + 1, FALSE,
                 IF char \in {"\"", "\\", "/"} THEN Append(result, char)
                 ELSE IF char = "n" THEN Append(result, "\n")
                 ELSE IF char = "r" THEN Append(result, "\r")
                 ELSE IF char = "t" THEN Append(result, "\t")
                 ELSE result \o <<"\\", char>>)
          ELSE IF char = "\\" THEN ScanCommand(s, i + 1, TRUE, result)
          ELSE IF char = "\"" THEN [cmd |-> result, found |-> TRUE]
          ELSE ScanCommand(s, i + 1, FALSE, Append(result, char))

\* extractCommandString, steps 3 and 4: from the opening quote of the value
CommandFromQuote(jsonStr, startQuote) ==
  IF startQuote = 0 THEN NotFound
  ELSE ScanCommand(jsonStr, startQuote + 1, FALSE, <<>>)

\* extractCommandString, steps 2 to 4: from the key found at idx (0-based)
CommandAfterKey(jsonStr, idx) ==
  IF idx = -1 THEN NotFound
  ELSE CommandFromQuote(jsonStr,
         FindQuote(jsonStr, SkipToValue(jsonStr, idx + Len(CommandKey) + 1)))

\* extractCommandString
extractCommandString(jsonStr) == CommandAfterKey(jsonStr, Index(jsonStr, CommandKey))

ThoughtUploading   == <<"[uploading the file to the target host...]">>
ThoughtDownloading == <<"[downloading the file for local analysis...]">>
ThoughtAnalyzing   == <<"[analyzing...]">>
ThoughtExecPrefix  == <<"[executing: ]">>
ThoughtScanned     == <<"[JSON format error (escaping): command extracted by character-level scan]">>
ThoughtUnreadable  == <<"[the AI response format is unreadable]">>
ReportParseFailed  == <<"[parse failed: %v, original response: %s]">>
ReportSummaryPrefix == <<"[task summary: ]">>
ReportEnded        == <<"[task ended (see the execution log above for details)]">>
\* the placeholder report, four Chinese characters ("task done")
ReportPlaceholder  == <<"<ren>", "<wu>", "<wan>", "<cheng>">>

\* inferThoughtFromCommand
inferThoughtFromCommand(c) ==
  IF HasPrefix(c, <<"u","p","l","o","a","d">>) THEN ThoughtUploading
  ELSE IF HasPrefix(c, <<"d","o","w","n","l","o","a","d">>) THEN ThoughtDownloading
  ELSE IF c = <<>> THEN ThoughtAnalyzing
  ELSE ThoughtExecPrefix \o c

\* the text of a verdict's level
LevelText(level) == IF level = "high" THEN <<"h","i","g","h">> ELSE <<"l","o","w">>

NoReason == [text |-> "", verb |-> <<>>]

\* RunAgentStep, lines 557-568: the report as text
ReportText(v) ==
  IF v.t = "string" THEN v.v
  ELSE IF v.t \in {"object", "array"} THEN <<"[json.MarshalIndent of the value]">>
  ELSE IF v.t = "bool" THEN (IF v.v THEN <<"t","r","u","e">> ELSE <<"f","a","l","s","e">>)
  ELSE IF v.t = "number" THEN <<"[%v of the number]">>
  ELSE <<>>

\* the risk fields of a verdict
RiskFields(v) ==
  [RiskLevel |-> LevelText(v.level), Reason |-> [text |-> v.text, verb |-> v.verb]]

\* the risk fields with the classifier asked only when the model gave no
\* risk_level
RiskOfModelFirst(command, modelRisk, cache) ==
  IF command # <<>> /\ modelRisk = <<>>
  THEN RiskFields(CheckRisk(command, cache))
  ELSE [RiskLevel |-> modelRisk, Reason |-> NoReason]

\* the risk fields with the classifier never asked
RiskOfSkipped(command, modelRisk, cache) ==
  [RiskLevel |-> modelRisk, Reason |-> NoReason]

\* RunAgentStep, lines 570-580: the classifier's verdict for the command
RiskOf(command, modelRisk, cache) ==
  IF command # <<>>
  THEN RiskFields(CheckRisk(command, cache))
  ELSE [RiskLevel |-> modelRisk, Reason |-> NoReason]

\* RunAgentStep, lines 541-546: the command, a string or the last of a list
CommandOf(compat) ==
  IF compat.Command # <<>> THEN compat.Command
  ELSE IF Len(compat.CmdArray) > 0 THEN compat.CmdArray[Len(compat.CmdArray)]
  ELSE <<>>

\* RunAgentStep, lines 548-555: the thought
ThoughtOf(compat, command) ==
  IF compat.Thought # <<>> THEN compat.Thought
  ELSE IF compat.Explanation # <<>> THEN compat.Explanation
  ELSE inferThoughtFromCommand(command)

\* the report left as the model gave it
FinalReportOfKept(isFinished, report, thought) == report

\* RunAgentStep, lines 583-593: the report of a finished task is never blank
FinalReportOf(isFinished, report, thought) ==
  IF isFinished /\ (TrimSpace(report) = <<>> \/ report = ReportPlaceholder)
  THEN (IF thought # <<>> THEN ReportSummaryPrefix \o thought ELSE ReportEnded)
  ELSE report

\* the response of its parts
Response(compat, command, thought, risk) ==
  [Thought |-> thought, Command |-> command,
   RiskLevel |-> risk.RiskLevel, Reason |-> risk.Reason,
   IsFinished |-> compat.IsFinished,
   FinalReport |-> FinalReportOf(compat.IsFinished, ReportText(compat.FinalReport), thought)]

\* RunAgentStep, lines 548-595: the response for the command
ResponseFor(compat, command, cache) ==
  Response(compat, command, ThoughtOf(compat, command),
           RiskOf(command, compat.RiskLevel, cache))

\* RunAgentStep, lines 536-595: the response built from the decoded struct
BuildResponse(compat, cache) == ResponseFor(compat, CommandOf(compat), cache)

\* RunAgentStep, lines 521-528: the response when nothing could be read
UnreadableResponse ==
  [Thought |-> ThoughtUnreadable, Command |-> <<>>, RiskLevel |-> <<"l","o","w">>,
   Reason |-> NoReason, IsFinished |-> TRUE, FinalReport |-> ReportParseFailed]

\* RunAgentStep, lines 502-505: a closing brace appended to a text without one
fixTry(cleanResp) ==
  IF ~HasSuffix(TrimSpace(cleanResp), <<"}">>) THEN cleanResp \o <<"}">> ELSE cleanResp

\* the scanning extractor's result taken whenever it found a value, empty or not
ScanTierFoundOnly(compat, ex) ==
  IF ex.found
  THEN [tier |-> "scan",
        compat |-> [compat EXCEPT !.Command = ex.cmd,
                                  !.Thought = ThoughtScanned,
                                  !.RiskLevel = <<"h","i","g","h">>]]
  ELSE [tier |-> "none", compat |-> compat]

\* RunAgentStep, lines 512-529: the scanning extractor's result ex, after both
\* parses failed and left the struct compat
ScanTier(compat, ex) ==
  IF ex.found /\ ex.cmd # <<>>
  THEN [tier |-> "scan",
        compat |-> [compat EXCEPT !.Command = ex.cmd,
                                  !.Thought = ThoughtScanned,
                                  !.RiskLevel = <<"h","i","g","h">>]]
  ELSE [tier |-> "none", compat |-> compat]

\* RunAgentStep, lines 508-533: the second parse's result
RepairTier(cleanResp, second) ==
  IF second.err = "" THEN [tier |-> "repair", compat |-> second.compat]
  ELSE ScanTier(second.compat, extractCommandString(cleanResp))

\* RunAgentStep, lines 497-534: the first parse's result
StrictTier(cleanResp, first) ==
  IF first.err = "" THEN [tier |-> "strict", compat |-> first.compat]
  ELSE RepairTier(cleanResp, Unmarshal(fixTry(cleanResp), first.compat))

\* RunAgentStep, lines 494-534: the tiers on the cleaned text
ParseCleaned(cleanResp) == StrictTier(cleanResp, Unmarshal(cleanResp, ZeroCompat))

\* RunAgentStep, lines 492-534: which tier read the response, and the struct
\* it left
ParseTiers(rawResp) == ParseCleaned(cleanJSON(rawResp))

\* the response for what the tiers read
ResponseOf(p, cache) ==
  IF p.tier = "none" THEN UnreadableResponse ELSE BuildResponse(p.compat, cache)

\* RunAgentStep, lines 492-595: the response for the model's raw text
Interpret(rawResp, cache) == ResponseOf(ParseTiers(rawResp), cache)

----------------------------------------------------------------------------
(* RunAgentStep and compressHistory: one agent step over the conversation.  *)
(* callLLM is the environment: a call either fails or returns a text.       *)

\* Message, lines 412-415
Message(role, content) == [Role |-> role, Content |-> content]

\* RunAgentStep, line 477: the length above which the history is compressed
CompressThreshold == 15

\* compressHistory, line 600
cutIndex == 10

\* RunAgentStep, lines 456-474 and 482: the system message of the main call
SystemPromptMessage == Message("system", <<"[systemPrompt]">>)

\* compressHistory, lines 606-610: the messages of the summarization call
\* (the system text is the note-taker instruction, the user text is
\* "请生成摘要。")
summaryPrompt(toSummarize) ==
  <<Message("system", <<"[summarize this conversation]">>)>>
    \o toSummarize
    \o <<Message("user", <<"[generate the summary]">>)>>

\* compressHistory, line 617: "【前情提要】:\n" before the summary text
SummaryPrefix == <<"[previously:]", "\n">>

\* a callLLM call as the step's record of it: its messages and its outcome
LLMCall(kind, messages, out) ==
  [kind |-> kind, messages |-> messages, err |-> out.err, reply |-> out.text]

\* the outcomes of a callLLM call: an error (lines 740-779) or a text (line 777)
LLMError == [err |-> TRUE, text |-> <<>>]
LLMText(t) == [err |-> FALSE, text |-> t]

\* compressHistory with the history cut even when the summarization fails
compressHistoryDropOnError(h, sumOut) ==
  IF Len(h) < cutIndex THEN [history |-> h, calls |-> <<>>, err |-> FALSE]
  ELSE LET toSummarize == SubSeq(h, 1, cutIndex)
           remaining == SubSeq(h, cutIndex + 1, Len(h))
           call == LLMCall("summary", summaryPrompt(toSummarize), sumOut)
       IN [history |-> IF sumOut.err THEN remaining
                       ELSE <<Message("system", SummaryPrefix \o sumOut.text)>> \o remaining,
           calls |-> <<call>>, err |-> sumOut.err]

\* compressHistory with the summary put before the whole history
compressHistoryKeepAll(h, sumOut) ==
  IF Len(h) < cutIndex THEN [history |-> h, calls |-> <<>>, err |-> FALSE]
  ELSE LET toSummarize == SubSeq(h, 1, cutIndex)
           call == LLMCall("summary", summaryPrompt(toSummarize), sumOut)
       IN [history |-> IF sumOut.err THEN h
                       ELSE <<Message("system", SummaryPrefix \o sumOut.text)>> \o h,
           calls |-> <<call>>, err |-> sumOut.err]

\* compressHistory, lines 599-622: the history it leaves, the callLLM call it
\* makes and whether it returns an error
compressHistory(h, sumOut) ==
  IF Len(h) < cutIndex THEN [history |-> h, calls |-> <<>>, err |-> FALSE]
  ELSE LET toSummarize == SubSeq(h, 1, cutIndex)
           remaining == SubSeq(h, cutIndex + 1, Len(h))
           call == LLMCall("summary", summaryPrompt(toSummarize), sumOut)
       IN [history |-> IF sumOut.err THEN h
                       ELSE <<Message("system", SummaryPrefix \o sumOut.text)>> \o remaining,
           calls |-> <<call>>, err |-> sumOut.err]

\* the check of line 477 made at the threshold already
NeedsCompressionAtThreshold(h) == Len(h) >= CompressThreshold

\* RunAgentStep, line 477
NeedsCompression(h) == Len(h) > CompressThreshold

\* AgentResponse{}, line 489
ZeroResponse ==
  [Thought |-> <<>>, Command |-> <<>>, RiskLevel |-> <<>>, Reason |-> NoReason,
   IsFinished |-> FALSE, FinalReport |-> <<>>]

\* RunAgentStep, lines 481-596: the step after the compression check, which
\* left c
StepAfterCompression(c, mainOut) ==
  /\ startHistory' = history
  /\ history' = c.history
  /\ llmCalls' = c.calls
                   \o <<LLMCall("main", <<SystemPromptMessage>> \o c.history, mainOut)>>
  /\ sumFailed' = (sumFailed \/ c.err)
  /\ llmReply' = mainOut.text
  /\ stepErr' = mainOut.err
  /\ resp' = IF mainOut.err THEN ZeroResponse
             ELSE Interpret(mainOut.text, approvedCache)

\* RunAgentStep, lines 453-596, as one call: mainOut is the outcome of the main
\* callLLM call, sumOut the outcome of the summarization call if one is made.
\* The error compressHistory returns is dropped (line 478).
RunAgentStep(mainOut, sumOut) ==
  StepAfterCompression(
    IF NeedsCompression(history) THEN compressHistory(history, sumOut)
    ELSE [history |-> history, calls |-> <<>>, err |-> FALSE],
    mainOut)

----------------------------------------------------------------------------
(* SpecInterpret: one RunAgentStep call whose main callLLM call returns a   *)
(* given raw text, under a given approval cache.                            *)

MaxMembers == 2

\* members a model's JSON object is built from
MemberTexts == {
  \* "command":"rm"
  <<"\"","c","o","m","m","a","n","d","\"",":","\"","r","m","\"">>,
  \* "command": "ls"
  <<"\"","c","o","m","m","a","n","d","\"",":"," ","\"","l","s","\"">>,
  \* "command":"ls "a""   (quotes not escaped)
  <<"\"","c","o","m","m","a","n","d","\"",":","\"","l","s"," ","\"","a","\"","\"">>,
  \* "command":"rm \"a\""
  <<"\"","c","o","m","m","a","n","d","\"",":","\"","r","m"," ","\\","\"","a","\\","\"","\"">>,
  \* "command":["ls","rm"]
  <<"\"","c","o","m","m","a","n","d","\"",":","[","\"","l","s","\"",",","\"","r","m","\"","]">>,
  \* "cmd":["ls","rm"]
  <<"\"","c","m","d","\"",":","[","\"","l","s","\"",",","\"","r","m","\"","]">>,
  \* "risk_level":"low"
  <<"\"","r","i","s","k","_","l","e","v","e","l","\"",":","\"","l","o","w","\"">>,
  \* "risk_level":"high"
  <<"\"","r","i","s","k","_","l","e","v","e","l","\"",":","\"","h","i","g","h","\"">>,
  \* "is_finished":true
  <<"\"","i","s","_","f","i","n","i","s","h","e","d","\"",":","t","r","u","e">>,
  \* "final_report":"ok"
  <<"\"","f","i","n","a","l","_","r","e","p","o","r","t","\"",":","\"","o","k","\"">>,
  \* "thought":"t"
  <<"\"","t","h","o","u","g","h","t","\"",":","\"","t","\"">>,
  \* "final_report":""
  <<"\"","f","i","n","a","l","_","r","e","p","o","r","t","\"",":","\"","\"">>,
  \* "final_report":"任务完成"   (the placeholder report)
  <<"\"","f","i","n","a","l","_","r","e","p","o","r","t","\"",":","\"">>
    \o ReportPlaceholder \o <<"\"">>,
  \* "final_report":{}
  <<"\"","f","i","n","a","l","_","r","e","p","o","r","t","\"",":","{","}">> }

\* the members of an object, separated by commas
RECURSIVE JoinMembers(_)
JoinMembers(ms) ==
  IF ms = <<>> THEN <<>>
  ELSE IF Len(ms) = 1 THEN ms[1]
  ELSE ms[1] \o <<",">> \o JoinMembers(Tail(ms))

\* texts that are no object at all, and objects no tier can read:
\* {"thought":"t",} and {"command":"",}
GarbageTexts == {
  <<>>, <<"n","u","l","l">>, <<"h","e","l","l","o">>,
  <<"{","\"","t","h","o","u","g","h","t","\"",":","\"","t","\"",",","}">>,
  <<"{","\"","c","o","m","m","a","n","d","\"",":","\"","\"",",","}">> }

\* {"command":"a\\|b"}: a well-formed object whose command is a\|b
PipeObject ==
  <<"{","\"","c","o","m","m","a","n","d","\"",":","\"","a","\\","\\","|","b","\"","}">>

\* texts with backslashes in the command value:
\* {"command":"\"\\\/\n\r\t\x",}  (every escape pair, then a stray comma),
\* {"command":"a\                  (the text ends behind a backslash),
\* and PipeObject, bare and inside a code fence
EscapeTexts == {
  <<"{","\"","c","o","m","m","a","n","d","\"",":","\"","\\","\"","\\","\\","\\","/","\\","n","\\","r","\\","t","\\","x","\"",",","}">>,
  <<"{","\"","c","o","m","m","a","n","d","\"",":","\"","a","\\">>,
  PipeObject,
  FenceJson \o <<"\n">> \o PipeObject \o <<"\n">> \o Fence }

\* the raw texts of the model: an object of up to MaxMembers members, whole or
\* cut before its closing brace, bare or inside a Markdown code fence
RawTexts ==
  { open \o <<"{">> \o JoinMembers(ms) \o closer \o close :
      ms \in SeqsUpTo(MemberTexts, MaxMembers),
      closer \in { <<"}">>, <<>> },
      open \in { <<>>, FenceJson \o <<"\n">> },
      close \in { <<>>, <<"\n">> \o Fence } }
  \cup GarbageTexts \cup EscapeTexts

\* the conversation a task starts with
FirstMessage == Message("user", <<"[task]">>)

InterpretInit ==
  /\ llmReply \in RawTexts
  /\ approvedCache \in CachesBefore
  /\ history = <<FirstMessage>>
  /\ startHistory = <<>> /\ llmCalls = <<>>
  /\ resp = None /\ stepErr = FALSE /\ phase = "THINKING" /\ confirmed = FALSE
  /\ gateHigh = FALSE /\ lastExec = None /\ nappended = 0 /\ sumFailed = FALSE
  /\ ClassifyOff
  /\ SessionOff
  /\ ExecOff

\* the RunAgentStep call, the model replying llmReply
InterpretStep ==
  /\ phase = "THINKING"
  /\ RunAgentStep(LLMText(llmReply), LLMError)
  /\ phase' = "GATING"
  /\ UNCHANGED <<execVars, approvedCache, confirmed, gateHigh, lastExec, nappended,
                 classifyVars, sessionVars>>

InterpretNext == InterpretStep

SpecInterpret == InterpretInit /\ [][InterpretNext]_vars

StrictParse(clean) == Unmarshal(clean, ZeroCompat)
RepairParse(clean) == Unmarshal(fixTry(clean), StrictParse(clean).compat)
ScanFinds(clean) ==
  extractCommandString(clean).found /\ extractCommandString(clean).cmd # <<>>

AllTiersFail(clean) ==
  /\ StrictParse(clean).err # ""
  /\ RepairParse(clean).err # ""
  /\ ~ScanFinds(clean)

\* the terminal action of an unreadable response
IsTerminalAction(r) ==
  /\ r.IsFinished
  /\ r.Command = <<>>
  /\ r.FinalReport = ReportParseFailed
  /\ r.FinalReport # <<>>

\* the action is built from the first tier that read the cleaned text
BuiltFromFirstTier(clean, r, cache) ==
  IF StrictParse(clean).err = "" THEN r = BuildResponse(StrictParse(clean).compat, cache)
  ELSE IF RepairParse(clean).err = "" THEN r = BuildResponse(RepairParse(clean).compat, cache)
  ELSE /\ r.Command = extractCommandString(clean).cmd
       /\ r.Thought = ThoughtScanned
       /\ r.IsFinished = RepairParse(clean).compat.IsFinished

\* C11: whatever text a successful LLM call returns, RunAgentStep returns no
\* error; it returns the terminal action (finished, no command, the
\* parse-failure report) exactly when the strict parse fails, the parse after
\* the brace repair fails and the extractor finds no non-empty command; in
\* every other case the action is built from the first tier that succeeded.
C11_TerminalOnTotalFailure ==
  phase = "GATING" =>
    /\ ~stepErr
    /\ IsTerminalAction(resp) <=> AllTiersFail(cleanJSON(llmReply))
    /\ ~AllTiersFail(cleanJSON(llmReply)) =>
         BuiltFromFirstTier(cleanJSON(llmReply), resp, approvedCache)

\* C11 witness: an object with a trailing comma, which neither parse reads and
\* which holds no command, gave the terminal action
C11_Witness ==
  /\ phase = "GATING"
  /\ Len(llmReply) > 0 /\ llmReply[1] = "{"
  /\ AllTiersFail(cleanJSON(llmReply))
  /\ IsTerminalAction(resp)
  /\ ~stepErr

\* the report as the tiers read it, before a finished task's fallback
ReportRead(rawResp) == ReportText(ParseTiers(rawResp).compat.FinalReport)

\* C12: every action RunAgentStep returns without error and with is_finished
\* set has a final_report that is not blank; where the report read from the
\* model was blank or the placeholder, the report is the summary made of the
\* thought.
C12_FinishedHasReport ==
  (phase = "GATING" /\ ~stepErr /\ resp.IsFinished) =>
    /\ TrimSpace(resp.FinalReport) # <<>>
    /\ (/\ ParseTiers(llmReply).tier # "none"
        /\ \/ TrimSpace(ReportRead(llmReply)) = <<>>
           \/ ReportRead(llmReply) = ReportPlaceholder)
       => resp.FinalReport = ReportSummaryPrefix \o resp.Thought

\* C12 witness: the model finished with the placeholder report and the action
\* carries the summary of its thought
C12_Witness ==
  /\ phase = "GATING" /\ ~stepErr
  /\ resp.IsFinished
  /\ ParseTiers(llmReply).tier = "strict"
  /\ ReportRead(llmReply) = ReportPlaceholder
  /\ resp.FinalReport = ReportSummaryPrefix \o resp.Thought
  /\ resp.Thought # <<>>

\* the members named key of the object a text holds (none if the text is not
\* one JSON object)
MembersNamed(rawResp, key) ==
  LET p == ParseJSON(cleanJSON(rawResp))
  IN IF p.ok /\ p.val.t = "object"
     THEN SelectSeq(p.val.v, LAMBDA m : m[1] = key)
     ELSE <<>>

\* a JSON value that is a list of strings with at least one element
IsStringList(val) ==
  /\ val.t = "array"
  /\ Len(val.v) > 0
  /\ \A i \in 1..Len(val.v) : val.v[i].t = "string"

\* the object of the text has one member named key, a list of strings
HasListUnder(rawResp, key) ==
  /\ Len(MembersNamed(rawResp, key)) = 1
  /\ IsStringList(MembersNamed(rawResp, key)[1][2])

\* the last string of that list
LastUnder(rawResp, key) ==
  LET l == MembersNamed(rawResp, key)[1][2].v IN l[Len(l)].v

\* C13: when the model's text is a JSON object whose command field is a list
\* of strings, the action's command is the last element of the list.
C13_LastOfCommandList ==
  (phase = "GATING" /\ ~stepErr /\ HasListUnder(llmReply, <<"c","o","m","m","a","n","d">>)) =>
     resp.Command = LastUnder(llmReply, <<"c","o","m","m","a","n","d">>)

\* the same for a list under the key cmd, the tag of the struct's list field,
\* in an object without a command member: this holds
C13_LastOfCmdList ==
  (/\ phase = "GATING" /\ ~stepErr
   /\ HasListUnder(llmReply, <<"c","m","d">>)
   /\ MembersNamed(llmReply, <<"c","o","m","m","a","n","d">>) = <<>>) =>
     resp.Command = LastUnder(llmReply, <<"c","m","d">>)

\* command values with double quotes inside them: ls "a"
QuotedValues == { <<"l","s"," ","\"","a","\"">> }

\* the object a model writes for the command v when it does not escape v:
\* {"command":"v"}
UnescapedCommandObject(v) ==
  <<"{">> \o CommandKey \o <<":", "\"">> \o v \o <<"\"", "}">>

\* C14: for an object whose command value holds a double quote that is not
\* escaped, the scanning extractor returns the whole value, up to the quote
\* that closes it, and not the part before the embedded quote.
C14_WholeValueExtracted ==
  \A v \in QuotedValues :
    (phase = "GATING" /\ ~stepErr /\ llmReply = UnescapedCommandObject(v)) =>
       /\ extractCommandString(cleanJSON(llmReply)) = [cmd |-> v, found |-> TRUE]
       /\ resp.Command = v

\* the characters a backslash pair is un-escaped to, by the list of five
\* pairs and by the list with backslash-slash added
FivePairs == [c \in {"\"", "\\", "n", "r", "t"} |->
                IF c = "n" THEN "\n" ELSE IF c = "r" THEN "\r"
                ELSE IF c = "t" THEN "\t" ELSE c]
SixPairs == [c \in {"\"", "\\", "/", "n", "r", "t"} |->
               IF c = "/" THEN "/" ELSE FivePairs[c]]

\* the two-state automaton over s from position i: afterBackslash is its
\* state, acc the text accumulated, pairs the pairs it un-escapes
RECURSIVE Automaton(_, _, _, _, _)
Automaton(s, i, afterBackslash, acc, pairs) ==
  IF i > Len(s) THEN NotFound
  ELSE IF afterBackslash
    THEN Automaton(s, i + 1, FALSE,
                   IF s[i] \in DOMAIN pairs THEN Append(acc, pairs[s[i]])
                   ELSE acc \o <<"\\", s[i]>>,
                   pairs)
  ELSE IF s[i] = "\\" THEN Automaton(s, i + 1, TRUE, acc, pairs)
  ELSE IF s[i] = "\"" THEN [cmd |-> acc, found |-> TRUE]
  ELSE Automaton(s, i + 1, FALSE, Append(acc, s[i]), pairs)

\* the position of the command value's opening quote in s, 0 for none
OpeningQuote(s) ==
  IF Index(s, CommandKey) = -1 THEN 0
  ELSE FindQuote(s, SkipToValue(s, Index(s, CommandKey) + Len(CommandKey) + 1))

\* the extractor on the cleaned reply is the automaton with these pairs,
\* and the scan tier's action carries the automaton's text
ExtractorIs(pairs) ==
  (phase = "GATING" /\ OpeningQuote(cleanJSON(llmReply)) # 0) =>
     /\ extractCommandString(cleanJSON(llmReply)) =
          Automaton(cleanJSON(llmReply), OpeningQuote(cleanJSON(llmReply)) + 1,
                    FALSE, <<>>, pairs)
     /\ ParseTiers(llmReply).tier = "scan" =>
          resp.Command = Automaton(cleanJSON(llmReply),
                                   OpeningQuote(cleanJSON(llmReply)) + 1,
                                   FALSE, <<>>, pairs).cmd

\* C22 as stated: the extractor is the two-state automaton that un-escapes
\* exactly backslash-quote, backslash-backslash, backslash-n, backslash-r
\* and backslash-t, emits every other backslash pair unchanged, returns the
\* accumulated text at the first quote read in the normal state and
\* reports not found if the text ends before such a quote.
C22_FivePairs == ExtractorIs(FivePairs)

\* C22 amended: the same automaton, backslash-slash being un-escaped to a
\* slash as well.
C22_SixPairs == ExtractorIs(SixPairs)

\* the scan tier read the value holding every escape pair: quote,
\* backslash, slash, line feed, carriage return, tab, and \x kept as it is
C22_Witness ==
  /\ phase = "GATING"
  /\ ParseTiers(llmReply).tier = "scan"
  /\ resp.Command = <<"\"", "\\", "/", "\n", "\r", "\t", "\\", "x">>

\* the reply without its Markdown code fence (cleanJSON's first step)
StripFences(raw) ==
  TrimSpace(TrimSuffix(TrimPrefix(TrimPrefix(TrimSpace(raw), FenceJson), Fence), Fence))

\* the members named command of the object the stripped reply is, none if
\* it is no JSON object
CommandMembers(raw) ==
  IF ParseJSON(StripFences(raw)).ok /\ ParseJSON(StripFences(raw)).val.t = "object"
  THEN SelectSeq(ParseJSON(StripFences(raw)).val.v,
                 LAMBDA m : m[1] = <<"c","o","m","m","a","n","d">>)
  ELSE <<>>

\* the stripped reply is valid JSON with one command field, a string
HasStringCommand(raw) ==
  /\ Len(CommandMembers(raw)) = 1
  /\ CommandMembers(raw)[1][2].t = "string"

\* C24: cleaning does not change the meaning of a well-formed payload: if
\* the reply, its code fences removed, is valid JSON with a string command
\* field, the action's command is the decoded value of that field.
C24_CleaningKeepsCommand ==
  (phase = "GATING" /\ HasStringCommand(llmReply)) =>
     /\ ~stepErr
     /\ resp.Command = CommandMembers(llmReply)[1][2].v

----------------------------------------------------------------------------
(* SpecLoop: the agent loop around RunAgentStep.  The loop's own code is    *)
(* not among the sources; its states and transitions follow the design's    *)
(* state machine THINKING -> GATING -> EXECUTING -> OBSERVING ->            *)
(* (THINKING | FINISHED).                                                   *)

\* the most messages an iteration appends to the history
MaxAppend == 2

\* the most messages the loop appends in a run of the model
MaxMessages == 20

\* the model's replies in a run of the loop
LoopRaws == {
  \* {"command":"rm","risk_level":"low"}
  <<"{","\"","c","o","m","m","a","n","d","\"",":","\"","r","m","\"",",","\"","r","i","s","k","_","l","e","v","e","l","\"",":","\"","l","o","w","\"","}">>,
  \* {"thought":"t","is_finished":true,"final_report":"ok"}
  <<"{","\"","t","h","o","u","g","h","t","\"",":","\"","t","\"",",","\"","i","s","_","f","i","n","i","s","h","e","d","\"",":","t","r","u","e",",","\"","f","i","n","a","l","_","r","e","p","o","r","t","\"",":","\"","o","k","\"","}">>,
  \* {"command":"ls "a""}
  <<"{","\"","c","o","m","m","a","n","d","\"",":","\"","l","s"," ","\"","a","\"","\"","}">>,
  \* {"command": "ls"}
  <<"{","\"","c","o","m","m","a","n","d","\"",":"," ","\"","l","s","\"","}">>,
  \* hello
  <<"h","e","l","l","o">>
  }

\* the outcomes of the main call and of the summarization call
MainOutcomes == {LLMError} \cup {LLMText(t) : t \in LoopRaws}
SummaryOutcomes == {LLMError, LLMText(<<"s">>)}

LoopInit ==
  /\ llmReply = <<>>
  /\ approvedCache = {}
  /\ history = <<FirstMessage>>
  /\ startHistory = <<>> /\ llmCalls = <<>>
  /\ resp = None /\ stepErr = FALSE /\ phase = "THINKING" /\ confirmed = FALSE
  /\ gateHigh = FALSE /\ lastExec = None /\ nappended = 0 /\ sumFailed = FALSE
  /\ ClassifyOff
  /\ SessionOff
  /\ ExecOff

\* THINKING: the RunAgentStep call; an error ends the loop
Think ==
  /\ phase = "THINKING"
  /\ \E mainOut \in MainOutcomes, sumOut \in SummaryOutcomes :
       /\ RunAgentStep(mainOut, sumOut)
       /\ phase' = IF mainOut.err THEN "FAILED" ELSE "GATING"
  /\ confirmed' = FALSE
  /\ gateHigh' = FALSE
  /\ UNCHANGED <<execVars, approvedCache, lastExec, nappended, classifyVars, sessionVars>>

\* the gate asks the operator when the action's risk_level is "high"
NeedsConfirmation(r) == r.RiskLevel = <<"h","i","g","h">>

\* GATING: an action without a command has nothing to execute
GateNoCommand ==
  /\ phase = "GATING"
  /\ resp.Command = <<>>
  /\ phase' = "OBSERVING"
  /\ UNCHANGED <<execVars, approvedCache, llmReply, history, startHistory, llmCalls, resp,
                 stepErr, confirmed, gateHigh, lastExec, nappended, sumFailed,
                 classifyVars, sessionVars>>

\* GATING: a command that needs no confirmation goes to the backend
GatePass ==
  /\ phase = "GATING"
  /\ resp.Command # <<>>
  /\ ~NeedsConfirmation(resp)
  /\ gateHigh' = (CheckRisk(resp.Command, approvedCache).level = "high")
  /\ phase' = "EXECUTING"
  /\ UNCHANGED <<execVars, approvedCache, llmReply, history, startHistory, llmCalls, resp,
                 stepErr, confirmed, lastExec, nappended, sumFailed,
                 classifyVars, sessionVars>>

\* GATING: the operator confirms the command, which calls RecordApproval
GateConfirm ==
  /\ phase = "GATING"
  /\ resp.Command # <<>>
  /\ NeedsConfirmation(resp)
  /\ gateHigh' = (CheckRisk(resp.Command, approvedCache).level = "high")
  /\ approvedCache' = RecordApproval(resp.Command, approvedCache)
  /\ confirmed' = TRUE
  /\ phase' = "EXECUTING"
  /\ UNCHANGED <<execVars, llmReply, history, startHistory, llmCalls, resp, stepErr,
                 lastExec, nappended, sumFailed, classifyVars, sessionVars>>

\* GATING: the operator refuses the command, which is not executed
GateDecline ==
  /\ phase = "GATING"
  /\ resp.Command # <<>>
  /\ NeedsConfirmation(resp)
  /\ phase' = "OBSERVING"
  /\ UNCHANGED <<execVars, approvedCache, llmReply, history, startHistory, llmCalls, resp,
                 stepErr, confirmed, gateHigh, lastExec, nappended, sumFailed,
                 classifyVars, sessionVars>>

\* EXECUTING: SafeExecV3(command) hands the command to executor.Current.Run;
\* its error is an observation
SafeExecV3 ==
  /\ phase = "EXECUTING"
  /\ \E failed \in BOOLEAN :
       lastExec' = [command |-> resp.Command, failed |-> failed, high |-> gateHigh,
                    confirmed |-> confirmed,
                    recorded |-> isApproved(resp.Command, approvedCache)]
  /\ phase' = "OBSERVING"
  /\ UNCHANGED <<execVars, approvedCache, llmReply, history, startHistory, llmCalls, resp,
                 stepErr, confirmed, gateHigh, nappended, sumFailed,
                 classifyVars, sessionVars>>

\* the k messages an iteration appends, numbered as they come; their roles
\* and texts play no part in a step
Appended(k) ==
  [i \in 1..k |-> Message("user", <<"[observation]", nappended + i>>)]

\* OBSERVING: the command and its output are appended to the history
Observe ==
  /\ phase = "OBSERVING"
  /\ \E k \in 1..MaxAppend :
       /\ nappended + k <= MaxMessages
       /\ history' = history \o Appended(k)
       /\ nappended' = nappended + k
  /\ phase' = IF resp.IsFinished THEN "FINISHED" ELSE "THINKING"
  /\ lastExec' = None
  /\ UNCHANGED <<execVars, approvedCache, llmReply, startHistory, llmCalls, resp, stepErr,
                 confirmed, gateHigh, sumFailed, classifyVars, sessionVars>>

LoopNext ==
  \/ Think
  \/ GateNoCommand
  \/ GatePass
  \/ GateConfirm
  \/ GateDecline
  \/ SafeExecV3
  \/ Observe

SpecLoop == LoopInit /\ [][LoopNext]_vars

----------------------------------------------------------------------------
(* Claims about the agent loop and the history.                             *)

\* C2: in every run of the loop, a command for which CheckRisk said high at
\* the gate reaches the backend only after the operator confirmed it, and a
\* confirmed command has been recorded by RecordApproval by the time it is
\* executed; no command is executed with a high verdict and no confirmation.
C2_GatedExecution ==
  lastExec # None =>
    /\ lastExec.high => lastExec.confirmed
    /\ lastExec.confirmed => lastExec.recorded

\* C2 witness: the model called rm low, the classifier said high, and rm was
\* executed after the operator's confirmation and its recording
C2_Witness ==
  /\ lastExec # None
  /\ lastExec.command = <<"r","m">>
  /\ lastExec.high /\ lastExec.confirmed /\ lastExec.recorded
  /\ ParseTiers(llmReply).compat.RiskLevel = <<"l","o","w">>

\* the RunAgentStep call has returned and the loop has not gone on yet
StepReturned == phase \in {"GATING", "FAILED"}

\* the step made a summarization call, which failed / succeeded
SummaryFailed ==
  Len(llmCalls) >= 1 /\ llmCalls[1].kind = "summary" /\ llmCalls[1].err
SummarySucceeded ==
  Len(llmCalls) >= 1 /\ llmCalls[1].kind = "summary" /\ ~llmCalls[1].err

\* C8: a step that starts with n > 15 messages attempts a summarization, and if
\* it succeeds the history is one system summary message followed by the
\* former messages 11..n unchanged, n - 9 messages in all; a step that starts
\* with n <= 15 messages leaves the history as it was and makes no
\* summarization call.
C8_Compression ==
  StepReturned =>
    LET n == Len(startHistory)
    IN /\ n > 15 =>
            /\ llmCalls[1].kind = "summary"
            /\ SummarySucceeded =>
                 /\ history = <<Message("system", SummaryPrefix \o llmCalls[1].reply)>>
                                \o SubSeq(startHistory, 11, n)
                 /\ Len(history) = n - 9
       /\ n <= 15 =>
            /\ history = startHistory
            /\ \A i \in DOMAIN llmCalls : llmCalls[i].kind # "summary"

\* C8 witness: a step started with 16 messages, summarized, and left 7
C8_Witness ==
  /\ StepReturned
  /\ Len(startHistory) = 16
  /\ SummarySucceeded
  /\ Len(history) = 7
  /\ history[1].Role = "system"

\* C9: when the summarization call fails, the history is exactly what it was,
\* the step goes on to make its main call with that history, and the step
\* returns an error only if the main call fails.
C9_FailureKeepsHistory ==
  (StepReturned /\ SummaryFailed) =>
    /\ history = startHistory
    /\ Len(llmCalls) = 2
    /\ llmCalls[2].kind = "main"
    /\ llmCalls[2].messages = <<SystemPromptMessage>> \o startHistory
    /\ stepErr = llmCalls[2].err

\* C9 witness: the summarization failed, the main call was made with all the
\* messages and the step returned an action and no error
C9_Witness ==
  /\ StepReturned
  /\ SummaryFailed
  /\ Len(history) > 15
  /\ ~stepErr
  /\ resp.Command # <<>>

\* the history messages a call carries: all but the system prompt of a main
\* call, all but the instruction and the request of a summarization call
HistoryMessagesIn(call) ==
  IF call.kind = "main" THEN Len(call.messages) - 1 ELSE Len(call.messages) - 2

----------------------------------------------------------------------------
(* SSHExecutor.Run: the calls of Run on one remote session. The session    *)
(* holds one interactive shell; a call writes one line to the shell's      *)
(* input and reads the shell's output line by line up to its end marker.   *)
(* The remote shell and the transport are the environment: the shell       *)
(* answers a written line with output lines, a write or a read can fail.   *)

NumCallers == 2

Callers == 1..NumCallers

\* what time.Now().UnixNano() can return: a reading of the wall clock
ClockReadings == {1, 11}

DecimalDigits == <<"0","1","2","3","4","5","6","7","8","9">>

\* fmt's %d of a number that is not negative
RECURSIVE FormatInt(_)
FormatInt(n) ==
  IF n < 10 THEN <<DecimalDigits[n + 1]>>
  ELSE FormatInt(n \div 10) \o <<DecimalDigits[(n % 10) + 1]>>

\* fmt.Sprintf("__END_%d__", t)
EndMarkerOf(t) == <<"_","_","E","N","D","_">> \o FormatInt(t) \o <<"_","_">>

\* fmt.Sprintf("%s; echo \"\"; echo \"%s:$?\"\n", c, marker)
FullCmd(c, marker) ==
  c \o <<";"," ","e","c","h","o"," ","\"","\"",";"," ","e","c","h","o"," ","\"">>
    \o marker \o <<":","$","?","\"","\n">>

\* the commands handed to Run: ls, local_run ls, upload a, upload a b,
\* download a, ls local_run a
RemoteCmds ==
  { <<"l","s">>,
    <<"l","o","c","a","l","_","r","u","n"," ","l","s">>,
    <<"u","p","l","o","a","d"," ","a">>,
    <<"u","p","l","o","a","d"," ","a"," ","b">>,
    <<"d","o","w","n","l","o","a","d"," ","a">>,
    <<"l","s"," ","l","o","c","a","l","_","r","u","n"," ","a">> }

LocalRunMark == <<"l","o","c","a","l","_","r","u","n"," ">>
UploadVerb == <<"u","p","l","o","a","d"," ">>
DownloadVerb == <<"d","o","w","n","l","o","a","d"," ">>

\* a line of the shell's output; run is the Run call it answers (history)
Line(text, run) == [text |-> text, run |-> run]

\* the line echo "marker:$?" prints, the command having ended with status 0
MarkerLine(marker, run) == Line(marker \o <<":","0","\n">>, run)

\* what the shell prints for the line written by call number run:
\* the two echoes alone, a line of output before them, the same with the
\* shell tracing its commands (set -x; stderr is merged into stdout), or
\* output without the echoes (the command does not end, or swallows them)
ShellOutputs(marker, run) ==
  { <<Line(<<"\n">>, run), MarkerLine(marker, run)>>,
    <<Line(<<"a","\n">>, run), Line(<<"\n">>, run), MarkerLine(marker, run)>>,
    <<Line(<<"\n">>, run),
      Line(<<"+"," ","e","c","h","o"," ">> \o marker \o <<":","0","\n">>, run),
      MarkerLine(marker, run)>>,
    <<Line(<<"a","\n">>, run)>> }

\* a variant of LineEndsRun that ends the loop at any line
LineEndsRunAnyLine(line, marker) == TRUE

\* line 317: the line ends the read loop
LineEndsRun(line, marker) == Contains(line, marker)

\* a variant of RunResult that does not trim
RunResultUntrimmed(lines) == Flatten(lines)

\* line 323: the result of a call whose loop ended
RunResult(lines) == TrimSpace(Flatten(lines))

\* a variant of Unlock that leaves the lock held
UnlockSkipped(m) == m

\* s.mu.Unlock()
Unlock(m) == FALSE

Texts(lines) == [i \in DOMAIN lines |-> lines[i].text]

\* the session after newSSHExecutor: its own Run call (line 253) has made
\* one marker, and the shell's answer to it has been read
SSHInit ==
  /\ mu = FALSE
  /\ stdin = <<>>
  /\ stdout = <<>>
  /\ runPc = [g \in Callers |-> "idle"]
  /\ cmdStr = [g \in Callers |-> <<>>]
  /\ endMarker = [g \in Callers |-> None]
  /\ outputLines = [g \in Callers |-> <<>>]
  /\ readLog = [g \in Callers |-> <<>>]
  /\ runRet = None
  /\ \E t \in ClockReadings : markers = <<EndMarkerOf(t)>>
  /\ nruns = 0
  /\ ClassifyOff /\ SessionOff /\ AgentOff /\ LocalOff /\ InitOff
  /\ approvedCache = {}

\* a return of g's call: the deferred s.mu.Unlock() runs, the call's
\* variables are gone
Return(g, out, err) ==
  /\ runRet' = [caller |-> g, out |-> out, err |-> err]
  /\ runPc' = [runPc EXCEPT ![g] = "returned"]
  /\ mu' = Unlock(mu)
  /\ cmdStr' = [cmdStr EXCEPT ![g] = <<>>]
  /\ endMarker' = [endMarker EXCEPT ![g] = None]
  /\ outputLines' = [outputLines EXCEPT ![g] = <<>>]
  /\ readLog' = [readLog EXCEPT ![g] = <<>>]

\* caller g calls Run(c); a caller makes one call, a later call of the
\* same goroutine being the call of another caller
SSH_Call(g, c) ==
  /\ runPc[g] = "idle"
  /\ nruns' = nruns + 1
  /\ runPc' = [runPc EXCEPT ![g] = "Lock"]
  /\ cmdStr' = [cmdStr EXCEPT ![g] = c]
  /\ UNCHANGED <<mu, stdin, stdout, markers, runRet, endMarker, outputLines, readLog>>
  /\ UNCHANGED <<approvedCache, classifyVars, sessionVars, agentVars, localVars, initVars>>

\* s.mu.Lock(): blocks while the lock is held
SSH_Lock(g) ==
  /\ runPc[g] = "Lock"
  /\ ~mu
  /\ mu' = TRUE
  /\ runPc' = [runPc EXCEPT ![g] = "locked"]
  /\ UNCHANGED <<stdin, stdout, cmdStr, endMarker, outputLines, readLog, runRet,
                 markers, nruns>>
  /\ UNCHANGED <<approvedCache, classifyVars, sessionVars, agentVars, localVars, initVars>>

\* lines 262-286: a command holding "local_run " runs in a local process;
\* its failure is part of the text returned
SSH_LocalRun(g) ==
  /\ runPc[g] = "locked"
  /\ Contains(cmdStr[g], LocalRunMark)
  /\ \E out \in {<<"[Local Exec Success]">>, <<"[Local Exec Error]">>} :
       Return(g, out, "")
  /\ UNCHANGED <<stdin, stdout, markers, nruns>>
  /\ UNCHANGED <<approvedCache, classifyVars, sessionVars, agentVars, localVars, initVars>>

\* lines 288-302: upload and download; the transfer itself succeeds or fails
SSH_Transfer(g) ==
  /\ runPc[g] = "locked"
  /\ ~Contains(cmdStr[g], LocalRunMark)
  /\ HasPrefix(cmdStr[g], UploadVerb) \/ HasPrefix(cmdStr[g], DownloadVerb)
  /\ IF Len(Fields(cmdStr[g])) # 3
       THEN Return(g, <<>>, "usage")
       ELSE \E ok \in BOOLEAN :
              IF ok THEN Return(g, <<"[transfer ok]">>, "")
                    ELSE Return(g, <<>>, "transfer")
  /\ UNCHANGED <<stdin, stdout, markers, nruns>>
  /\ UNCHANGED <<approvedCache, classifyVars, sessionVars, agentVars, localVars, initVars>>

\* lines 304-309: the marker is made from the clock's reading and the line
\* is written to the shell's input, or the write fails
SSH_Write(g) ==
  /\ runPc[g] = "locked"
  /\ ~Contains(cmdStr[g], LocalRunMark)
  /\ ~HasPrefix(cmdStr[g], UploadVerb) /\ ~HasPrefix(cmdStr[g], DownloadVerb)
  /\ \E t \in ClockReadings, ok \in BOOLEAN :
       /\ markers' = Append(markers, EndMarkerOf(t))
       /\ IF ok
            THEN /\ endMarker' = [endMarker EXCEPT ![g] = EndMarkerOf(t)]
                 /\ stdin' = Append(stdin, [text |-> FullCmd(cmdStr[g], EndMarkerOf(t)),
                                            marker |-> EndMarkerOf(t),
                                            run |-> Len(markers) + 1])
                 /\ runPc' = [runPc EXCEPT ![g] = "read"]
                 /\ UNCHANGED <<mu, runRet, cmdStr, outputLines, readLog>>
            ELSE /\ Return(g, <<>>, "write")
                 /\ UNCHANGED stdin
  /\ UNCHANGED <<stdout, nruns>>
  /\ UNCHANGED <<approvedCache, classifyVars, sessionVars, agentVars, localVars, initVars>>

\* lines 313-320: one turn of the read loop, a line having arrived
SSH_Read(g) ==
  /\ runPc[g] = "read"
  /\ stdout # <<>>
  /\ stdout' = Tail(stdout)
  /\ IF LineEndsRun(Head(stdout).text, endMarker[g])
       THEN Return(g, RunResult(Texts(outputLines[g])), "")
       ELSE /\ outputLines' = [outputLines EXCEPT ![g] = Append(@, Head(stdout))]
            /\ readLog' = [readLog EXCEPT ![g] = Append(@, Head(stdout))]
            /\ UNCHANGED <<mu, runPc, runRet, cmdStr, endMarker>>
  /\ UNCHANGED <<stdin, markers, nruns>>
  /\ UNCHANGED <<approvedCache, classifyVars, sessionVars, agentVars, localVars, initVars>>

\* lines 313-316: the read fails
SSH_ReadFail(g) ==
  /\ runPc[g] = "read"
  /\ Return(g, Flatten(Texts(outputLines[g])), "read")
  /\ UNCHANGED <<stdin, stdout, markers, nruns>>
  /\ UNCHANGED <<approvedCache, classifyVars, sessionVars, agentVars, localVars, initVars>>

\* the remote shell takes a written line and prints its answer
Shell_Answer ==
  /\ stdin # <<>>
  /\ stdin' = Tail(stdin)
  /\ \E out \in ShellOutputs(Head(stdin).marker, Head(stdin).run) :
       stdout' = stdout \o out
  /\ UNCHANGED <<mu, runPc, cmdStr, endMarker, outputLines, readLog, runRet,
                 markers, nruns>>
  /\ UNCHANGED <<approvedCache, classifyVars, sessionVars, agentVars, localVars, initVars>>

SSHNext ==
  \/ \E g \in Callers, c \in RemoteCmds : SSH_Call(g, c)
  \/ \E g \in Callers : SSH_Lock(g)
  \/ \E g \in Callers : SSH_LocalRun(g)
  \/ \E g \in Callers : SSH_Transfer(g)
  \/ \E g \in Callers : SSH_Write(g)
  \/ \E g \in Callers : SSH_Read(g)
  \/ \E g \in Callers : SSH_ReadFail(g)
  \/ Shell_Answer

SpecSSH == SSHInit /\ [][SSHNext]_vars

\* the scheduler runs a caller whose read can return: a line has arrived
SpecSSHFair == SpecSSH /\ \A g \in Callers : WF_vars(SSH_Read(g))

----------------------------------------------------------------------------
(* Claims about the remote session.                                        *)

\* caller g is between acquiring and releasing the session lock
InRun(g) == runPc[g] \in {"locked", "read"}

\* C15: under any interleaving of the callers of Run, at most one call is
\* between acquiring and releasing the session lock, so no call writes to
\* the shell or reads from it while another call's command is outstanding;
\* and the lock is released on every return path: it is held only while a
\* call is between acquiring and releasing it.
C15_OneRunAtATime ==
  /\ Cardinality({g \in Callers : InRun(g)}) <= 1
  /\ mu <=> (\E g \in Callers : InRun(g))

\* a caller waits for the lock while another call's command is outstanding
C15_Witness ==
  \E g, h \in Callers :
    /\ runPc[g] = "read" /\ runPc[h] = "Lock" /\ mu
    /\ stdout # <<>>

\* C16: every Run that writes to the shell uses a marker different from
\* the marker of every earlier Run on the session, so that a line printed
\* for an earlier call, one left unread included, never ends the read loop
\* of a later call.
C16_FreshMarker ==
  /\ \A i, j \in DOMAIN markers : i < j => markers[i] # markers[j]
  /\ \A g \in Callers :
       (runPc[g] = "read" /\ stdout # <<>> /\ Head(stdout).run < Len(markers)) =>
          ~LineEndsRun(Head(stdout).text, endMarker[g])

\* the lines g's call has read together with the one it reads now
LinesRead(g) == Texts(Append(readLog[g], Head(stdout)))

\* C17: a Run that succeeds on the remote path returns the concatenation, in
\* the order of their arrival, of the lines it read after it wrote the
\* command and before the first line containing the marker, trimmed; the
\* marker line and what follows it are not part of the result.
C17_OutputBeforeMarker ==
  [][\A g \in Callers :
       (runPc[g] = "read" /\ runPc'[g] = "returned" /\ runRet'.err = "") =>
          /\ runRet'.caller = g
          /\ Contains(LinesRead(g)[Len(LinesRead(g))], endMarker[g])
          /\ \A i \in 1..(Len(LinesRead(g)) - 1) :
               ~Contains(LinesRead(g)[i], endMarker[g])
          /\ runRet'.out =
               TrimSpace(Flatten(SubSeq(LinesRead(g), 1, Len(LinesRead(g)) - 1)))
          /\ stdout' = Tail(stdout)]_vars

\* a call returned the line of output the shell printed before the marker,
\* trimmed, the marker line's successors staying unread
C17_Witness ==
  \E g \in Callers :
    /\ runPc[g] = "returned" /\ runRet = [caller |-> g, out |-> <<"a">>, err |-> ""]
    /\ stdout # <<>>

\* a line containing g's marker has arrived and is not read yet
MarkerArrived(g) ==
  \E i \in DOMAIN stdout : Contains(stdout[i].text, endMarker[g])

\* C18: a Run that has written its command returns only when it reads a
\* line containing the marker (success) or when a read fails (the error,
\* with the lines accumulated so far); while neither happens it does not
\* return; and once a marker line has arrived it eventually returns.
C18_ReturnsOnMarkerOrFailure ==
  /\ [][\A g \in Callers :
          (runPc[g] = "read" /\ runPc'[g] # "read") =>
             \/ /\ stdout # <<>>
                /\ Contains(Head(stdout).text, endMarker[g])
                /\ stdout' = Tail(stdout)
                /\ runRet' = [caller |-> g, out |-> runRet'.out, err |-> ""]
             \/ /\ runRet' = [caller |-> g, out |-> Flatten(Texts(readLog[g])), err |-> "read"]
                /\ stdout' = stdout]_vars
  /\ \A g \in Callers :
       (runPc[g] = "read" /\ MarkerArrived(g)) ~> (runPc[g] # "read")

\* a call returned the read error with the line it had accumulated
C18_Witness ==
  \E g \in Callers :
    runPc[g] = "returned" /\ runRet = [caller |-> g, out |-> <<"a", "\n">>, err |-> "read"]

\* the step is g's call leaving line 261 by the local route: it returns the
\* local process's text, no marker is made and nothing is written
TookLocalRoute(g) ==
  /\ runRet'.caller = g /\ runRet'.err = ""
  /\ runRet'.out \in {<<"[Local Exec Success]">>, <<"[Local Exec Error]">>}
  /\ stdin' = stdin /\ markers' = markers

\* ... by the transfer route: it returns the transfer's result or the usage
\* error, no marker is made and nothing is written
TookTransferRoute(g) ==
  /\ runRet'.caller = g
  /\ runRet'.err \in {"usage", "transfer"} \/ runRet'.out = <<"[transfer ok]">>
  /\ stdin' = stdin /\ markers' = markers

\* ... by the remote route: a marker is made and the command is written to
\* the shell with the marker's echoes behind it, or the write fails
TookRemoteRoute(g) ==
  /\ Len(markers') = Len(markers) + 1
  /\ \/ /\ Len(stdin') = Len(stdin) + 1
        /\ stdin'[Len(stdin')].text = FullCmd(cmdStr[g], markers'[Len(markers')])
        /\ runPc'[g] = "read"
     \/ /\ stdin' = stdin
        /\ runRet' = [caller |-> g, out |-> <<>>, err |-> "write"]

\* C21: on the remote backend Run takes the route the start of the command
\* names: a command that begins with the local_run mark runs in a local
\* process and nothing is written to the shell; a command that begins with
\* upload or download goes to the file transfer; every other command is
\* written to the shell with the marker's suffix and is not run locally.
C21_RouteByStart ==
  [][\A g \in Callers :
       (runPc[g] = "locked" /\ runPc'[g] # "locked") =>
          IF HasPrefix(cmdStr[g], LocalRunMark) THEN TookLocalRoute(g)
          ELSE IF HasPrefix(cmdStr[g], UploadVerb) \/ HasPrefix(cmdStr[g], DownloadVerb)
            THEN TookTransferRoute(g)
          ELSE TookRemoteRoute(g)]_vars

----------------------------------------------------------------------------
(* LocalExecutor.Run and copyLocalFile: one call of Run on the local       *)
(* backend, in the build for a system other than Windows. The file system  *)
(* is a function from the paths that exist to their bytes; whether a       *)
(* directory or a file can be created, whether the copy fails, and what a  *)
(* shell process prints are the environment's choice.                      *)

MaxBytes == 2

LocalPaths == { <<"a">>, <<"b">> }

\* the contents of a file: up to MaxBytes bytes
FileContents == UNION { [1..n -> {"x", "y"}] : n \in 0..MaxBytes }

\* the file systems a call starts from
FileSystems == UNION { [ps -> FileContents] : ps \in SUBSET LocalPaths }

\* the commands handed to Run: upload, upload a, upload a b, upload a a,
\* download b a, download a b c, local_run upload a b, ls, and
\* upload b a with more spaces
LocalCmds ==
  { <<"u","p","l","o","a","d">>,
    <<"u","p","l","o","a","d"," ","a">>,
    <<"u","p","l","o","a","d"," ","a"," ","b">>,
    <<"u","p","l","o","a","d"," ","a"," ","a">>,
    <<"d","o","w","n","l","o","a","d"," ","b"," ","a">>,
    <<"d","o","w","n","l","o","a","d"," ","a"," ","b"," ","c">>,
    <<"l","o","c","a","l","_","r","u","n"," ","u","p","l","o","a","d"," ","a"," ","b">>,
    <<"l","s">>,
    <<"u","p","l","o","a","d"," "," ","b"," "," "," ","a"," ">> }

\* what the environment does to a transfer
Faults == {"none", "mkdir", "create", "copy"}

\* what a shell process gives back: its combined output and whether it failed
ShellResults ==
  { [out |-> <<>>, failed |-> FALSE],
    [out |-> <<"a","\n">>, failed |-> FALSE],
    [out |-> <<>>, failed |-> TRUE] }

NoOutput == <<"[done, no output]">>

\* fmt.Sprintf("... (Bytes: %d): %s -> %s", n, src, dst)
TransferReport(n, src, dst) ==
  <<"[transfer ok]"," ","(","B","y","t","e","s",":"," ">> \o FormatInt(n)
    \o <<")",":"," ">> \o src \o <<" ","-",">"," ">> \o dst

\* what a call leaves: the text and error returned, the files, the processes
Outcome(out, err, fs, procs) ==
  [out |-> out, err |-> err, files |-> fs, processes |-> procs]

\* os.Create(p) followed by writing bytes: the file is made or truncated
WriteFile(fs, p, bytes) ==
  [q \in (DOMAIN fs) \cup {p} |-> IF q = p THEN bytes ELSE fs[q]]

\* lines 168-172, dst having been created: io.Copy reads the source as it
\* is now
CopyInto(created, procs, src, dst) ==
  Outcome(TransferReport(Len(created[src]), src, dst), "",
          WriteFile(created, dst, created[src]), procs)

\* copyLocalFile(src, dst); a copy that fails has written nothing yet
copyLocalFile(fs, procs, src, dst, fault) ==
  IF src \notin DOMAIN fs THEN Outcome(<<>>, "open", fs, procs)
  ELSE IF fault = "mkdir" THEN Outcome(<<>>, "mkdir", fs, procs)
  ELSE IF fault = "create" THEN Outcome(<<>>, "create", fs, procs)
  ELSE IF fault = "copy" THEN Outcome(<<>>, "copy", WriteFile(fs, dst, <<>>), procs)
  ELSE CopyInto(WriteFile(fs, dst, <<>>), procs, src, dst)

\* lines 57-60: the local_run mark is removed, the text trimmed
LocalStripped(c) ==
  TrimSpace(IF Contains(c, LocalRunMark) THEN ReplaceAll(c, LocalRunMark, <<>>) ELSE c)

\* lines 134-145: the cleaned output of the process
LocalOutput(text, failed) ==
  IF text = <<>> /\ ~failed THEN NoOutput ELSE text

\* lines 71-145: sh -c "c 2>&1"
LocalShell(fs, procs, c, result) ==
  Outcome(LocalOutput(TrimSpace(result.out), result.failed),
          IF result.failed THEN "exit" ELSE "",
          fs, Append(procs, c \o <<" ","2",">","&","1">>))

\* lines 62-69 on the parts of the command
LocalTransfer(fs, procs, parts, fault) ==
  IF Len(parts) # 3 THEN Outcome(<<>>, "usage", fs, procs)
  ELSE copyLocalFile(fs, procs, parts[2], parts[3], fault)

\* lines 62-145 on the stripped command
LocalDispatch(fs, procs, c, fault, result) ==
  IF HasPrefix(c, DownloadVerb) \/ HasPrefix(c, UploadVerb)
    THEN LocalTransfer(fs, procs, Fields(c), fault)
    ELSE LocalShell(fs, procs, c, result)

\* LocalExecutor.Run(c)
LocalRun(fs, procs, c, fault, result) ==
  LocalDispatch(fs, procs, LocalStripped(c), fault, result)

LocalInit ==
  /\ files \in FileSystems
  /\ filesBefore = files
  /\ localCmd \in LocalCmds
  /\ localRet = None
  /\ localStep = "input"
  /\ processes = <<>>
  /\ ClassifyOff /\ SessionOff /\ AgentOff /\ SSHOff /\ InitOff
  /\ approvedCache = {}

\* the call Run(localCmd)
LocalCall ==
  /\ localStep = "input"
  /\ \E fault \in Faults, result \in ShellResults :
       /\ localRet' = [out |-> LocalRun(files, processes, localCmd, fault, result).out,
                       err |-> LocalRun(files, processes, localCmd, fault, result).err]
       /\ files' = LocalRun(files, processes, localCmd, fault, result).files
       /\ processes' = LocalRun(files, processes, localCmd, fault, result).processes
  /\ localStep' = "returned"
  /\ UNCHANGED <<filesBefore, localCmd>>
  /\ UNCHANGED <<approvedCache, classifyVars, sessionVars, agentVars, sshVars, initVars>>

LocalNext == LocalCall

SpecLocal == LocalInit /\ [][LocalNext]_vars

----------------------------------------------------------------------------
(* Claims about the local backend.                                         *)

TransferVerbs == { <<"u","p","l","o","a","d">>, <<"d","o","w","n","l","o","a","d">> }

\* the words of the command, the local_run mark set aside
Words(c) == Fields(LocalStripped(c))

\* the command's first word is a transfer verb
UsesTransferVerb(c) == Words(c) # <<>> /\ Words(c)[1] \in TransferVerbs

\* C19: a command whose verb is upload or download and that does not have
\* exactly two arguments returns a usage error and nothing is executed: no
\* file is opened or created and no process is started.
C19_UsageErrorOnly ==
  (localStep = "returned" /\ UsesTransferVerb(localCmd) /\ Len(Words(localCmd)) # 3) =>
     /\ localRet.err = "usage"
     /\ files = filesBefore
     /\ processes = <<>>

\* C20: a local transfer that returns success leaves the destination with
\* exactly the bytes the source had, N of them, and reports the count N.
C20_ExactCopy ==
  (/\ localStep = "returned"
   /\ UsesTransferVerb(localCmd) /\ Len(Words(localCmd)) = 3
   /\ localRet.err = "") =>
     /\ Words(localCmd)[3] \in DOMAIN files
     /\ files[Words(localCmd)[3]] = filesBefore[Words(localCmd)[2]]
     /\ localRet.out = TransferReport(Len(filesBefore[Words(localCmd)[2]]),
                                      Words(localCmd)[2], Words(localCmd)[3])

----------------------------------------------------------------------------
(* executor.Init and newSSHExecutor: one call of Init, taken step by step  *)
(* through the set-up of the remote transport. Whether a step of the       *)
(* set-up succeeds is the environment's choice.                            *)

\* the configurations: no host (local mode), or a host with a key file, a
\* password, both or neither
Configs ==
  { [SSHHost |-> "", SSHKeyPath |-> "", SSHPassword |-> ""] } \cup
  [SSHHost : {"h"}, SSHKeyPath : {"", "k"}, SSHPassword : {"", "p"}]

\* the executors Current can hold before the call
ExecutorsBefore == { None, [kind |-> "LocalExecutor"], [kind |-> "SSHExecutor", of |-> "earlier"] }

InitInit ==
  /\ Current \in ExecutorsBefore
  /\ currentBefore = Current
  /\ initCfg \in Configs
  /\ opened = {}
  /\ initPc = "Init"
  /\ initErr = ""
  /\ ClassifyOff /\ SessionOff /\ AgentOff /\ SSHOff /\ LocalOff
  /\ approvedCache = {}

\* newSSHExecutor returns (nil, err) and Init returns err (lines 37-39)
InitFails(err) ==
  /\ initPc' = "returned"
  /\ initErr' = err
  /\ UNCHANGED Current

\* lines 34-36 and 42-46: the mode is chosen; local mode is done at once
Init_Call ==
  /\ initPc = "Init"
  /\ IF initCfg.SSHHost # ""
       THEN initPc' = "auth" /\ UNCHANGED <<Current, initErr>>
       ELSE /\ Current' = [kind |-> "LocalExecutor"]
            /\ initPc' = "returned" /\ initErr' = ""
  /\ UNCHANGED <<currentBefore, initCfg, opened>>
  /\ UNCHANGED <<approvedCache, classifyVars, sessionVars, agentVars, sshVars, localVars>>

\* lines 189-202: the key file is read and parsed, or the password is taken
Init_Auth ==
  /\ initPc = "auth"
  /\ \E outcome \in {"ok", "read key", "parse key"} :
       IF outcome = "ok" \/ initCfg.SSHKeyPath = ""
         THEN initPc' = "dial" /\ UNCHANGED <<Current, initErr>>
         ELSE InitFails(outcome)
  /\ UNCHANGED <<currentBefore, initCfg, opened>>
  /\ UNCHANGED <<approvedCache, classifyVars, sessionVars, agentVars, sshVars, localVars>>

\* lines 211-214: ssh.Dial
Init_Dial ==
  /\ initPc = "dial"
  /\ \E ok \in BOOLEAN :
       IF ok THEN /\ opened' = opened \cup {"client"}
                  /\ initPc' = "sftp" /\ UNCHANGED <<Current, initErr>>
             ELSE InitFails("dial") /\ UNCHANGED opened
  /\ UNCHANGED <<currentBefore, initCfg>>
  /\ UNCHANGED <<approvedCache, classifyVars, sessionVars, agentVars, sshVars, localVars>>

\* lines 216-220: sftp.NewClient; on failure the client is closed
Init_Sftp ==
  /\ initPc = "sftp"
  /\ \E ok \in BOOLEAN :
       IF ok THEN /\ opened' = opened \cup {"sftpClient"}
                  /\ initPc' = "session" /\ UNCHANGED <<Current, initErr>>
             ELSE InitFails("sftp") /\ opened' = opened \ {"client"}
  /\ UNCHANGED <<currentBefore, initCfg>>
  /\ UNCHANGED <<approvedCache, classifyVars, sessionVars, agentVars, sshVars, localVars>>

\* lines 222-227: client.NewSession; on failure the sftp client and the
\* client are closed
Init_Session ==
  /\ initPc = "session"
  /\ \E ok \in BOOLEAN :
       IF ok THEN /\ opened' = opened \cup {"session"}
                  /\ initPc' = "pipes" /\ UNCHANGED <<Current, initErr>>
             ELSE InitFails("session") /\ opened' = opened \ {"sftpClient", "client"}
  /\ UNCHANGED <<currentBefore, initCfg>>
  /\ UNCHANGED <<approvedCache, classifyVars, sessionVars, agentVars, sshVars, localVars>>

\* lines 229-232: session.StdinPipe; on failure the function returns the
\* error
Init_StdinPipe ==
  /\ initPc = "pipes"
  /\ \E ok \in BOOLEAN :
       IF ok THEN initPc' = "stdout" /\ UNCHANGED <<Current, initErr>>
             ELSE InitFails("stdin pipe")
  /\ UNCHANGED <<currentBefore, initCfg, opened>>
  /\ UNCHANGED <<approvedCache, classifyVars, sessionVars, agentVars, sshVars, localVars>>

\* lines 233-236: session.StdoutPipe; on failure the function returns the
\* error
Init_StdoutPipe ==
  /\ initPc = "stdout"
  /\ \E ok \in BOOLEAN :
       IF ok THEN initPc' = "start" /\ UNCHANGED <<Current, initErr>>
             ELSE InitFails("stdout pipe")
  /\ UNCHANGED <<currentBefore, initCfg, opened>>
  /\ UNCHANGED <<approvedCache, classifyVars, sessionVars, agentVars, sshVars, localVars>>

\* lines 237-255: the shell is started, /bin/bash or else /bin/sh, the
\* executor is made and its first Run call made, whose result is not looked
\* at; when neither shell starts the function returns the error
Init_Start ==
  /\ initPc = "start"
  /\ \E shell \in {"/bin/bash", "/bin/sh", "none"} :
       IF shell # "none" THEN initPc' = "made" /\ UNCHANGED <<Current, initErr>>
       ELSE InitFails("start shell")
  /\ UNCHANGED <<currentBefore, initCfg, opened>>
  /\ UNCHANGED <<approvedCache, classifyVars, sessionVars, agentVars, sshVars, localVars>>

\* lines 40-46: Init stores the executor and returns nil
Init_Return ==
  /\ initPc = "made"
  /\ Current' = [kind |-> "SSHExecutor", of |-> initCfg.SSHHost]
  /\ initPc' = "returned"
  /\ initErr' = ""
  /\ UNCHANGED <<currentBefore, initCfg, opened>>
  /\ UNCHANGED <<approvedCache, classifyVars, sessionVars, agentVars, sshVars, localVars>>

InitNext ==
  \/ Init_Call \/ Init_Auth \/ Init_Dial \/ Init_Sftp \/ Init_Session
  \/ Init_StdinPipe \/ Init_StdoutPipe \/ Init_Start \/ Init_Return

SpecInit == InitInit /\ [][InitNext]_vars

----------------------------------------------------------------------------
(* Claims about the initialization.                                        *)

\* C25: the initialization of the remote executor is all or nothing: on
\* every failure path (dial, file-transfer client, session, stdin and stdout
\* pipes, shell start) Init returns an error, the global executor is left
\* as it was, and every transport resource opened so far (client,
\* file-transfer client, session) has been closed.
C25_AllOrNothing ==
  (initPc = "returned" /\ initCfg.SSHHost # "") =>
     IF initErr = ""
       THEN /\ Current = [kind |-> "SSHExecutor", of |-> initCfg.SSHHost]
            /\ opened = {"client", "sftpClient", "session"}
       ELSE /\ Current = currentBefore
            /\ opened = {}

====
